---- MODULE Spec2Model ----
(***************************************************************************)
(* Model of simple-webrtc's Controller (src/src/lib.rs): the peer store,   *)
(* the media source registry, the event channel and the RTCPeerConnection  *)
(* objects the Controller creates and calls.                               *)
(*                                                                         *)
(* A Controller method takes &self or &mut self, so one call runs from     *)
(* entry to return without another one in between: each method is one      *)
(* action.  The results of the calls into webrtc-rs (success or error) are *)
(* chosen by the action.  The application takes the result of a call       *)
(* before it makes the next one.                                           *)
(*                                                                         *)
(* The callbacks connect registers on a connection run in the tasks of     *)
(* webrtc-rs: they only send on the event channel.  The tasks of the       *)
(* example application (src/example/src/bin/offer.rs) share the Controller *)
(* behind a tokio Mutex; SpecApp runs them.                                *)
(***************************************************************************)
EXTENDS Integers, Sequences, FiniteSets, Bags, TLC

\* ---------------------------------------------------------------- bounds
\* RTCPeerConnection objects that exist at the same time
MaxConns == 2
\* TrackLocalStaticRTP objects created in one run
MaxTracks == 2
\* events in the event channel that were sent and not yet received
MaxChan == 2

\* ---------------------------------------------------------------- inputs
PeerId == {"A", "B"}
MediaSourceId == {"audio", "video"}
RTCIceCandidate == {"cand1", "cand2"}

\* a session description: its kind and the peer whose connection created it
\* ("": the remote side)
NoSdp == [kind |-> "none", conn |-> ""]
RTCSessionDescription == {[kind |-> "offer", conn |-> ""]}

PeerState == {"Disconnected", "WaitingForSdp", "WaitingForIce", "Connected"}

\* the values of RTCIceConnectionState a connection reports
RTCIceConnectionState == {"Checking", "Connected", "Disconnected", "Failed",
                          "Closed"}

\* the tasks of the example application that share the Controller: the
\* three handlers run selects over, and main, which calls deinit at the end
Task == {"handle_swrtc", "handle_signals", "handle_events", "main"}

\* a track is named by its source id and its number among the tracks created
\* for that source id
NoTrack == <<"", 0>>

VARIABLES
    peers,          \* Controller.peers: PeerId -> Peer
    media_sources,  \* Controller.media_sources: MediaSourceId -> track
    rx_closed,      \* the receiver of emitted_event_chan was dropped
    transports,     \* the RTCPeerConnection held by the Peer of each peer id
    leaked,         \* the RTCPeerConnections no Peer holds, senders attached
    track_count,    \* the number of tracks created so far, by source id
    last,           \* the Controller call that has just returned, if any
    chan,           \* the events sent on emitted_event_chan, not yet received
    done,           \* the dial/accept_call calls whose event is in chan
    task,           \* the position of each task of the application
    mutex,          \* the task that holds the Mutex<Controller>, or "none"
    source,         \* the SourceTrack of the example: framer, channel, packetizer
    sink,           \* the SinkTrack of the example: builder, channel, output
    worker,         \* a MediaWorker: its channels and its outgoing tracks
    net             \* two endpoints and the signaling server between them

vars == <<peers, media_sources, rx_closed, transports, leaked, track_count,
          last, chan, done, task, mutex, source, sink, worker, net>>

\* ---------------------------------------------------------------- helpers
Keys(m) == DOMAIN m

\* HashMap::insert
Insert(m, k, v) == [x \in Keys(m) \cup {k} |-> IF x = k THEN v ELSE m[x]]

\* HashMap::remove
Remove(m, k) == [x \in Keys(m) \ {k} |-> m[x]]

EmptyMap == [x \in {} |-> 0]

\* one call made on a transport; a loop over a HashMap makes its calls in an
\* unspecified order, so the calls of one loop form one unordered batch
Call(c, name, track, sdp, cand, ok) ==
    [conn |-> c, call |-> name, track |-> track, sdp |-> sdp, cand |-> cand,
     ok |-> ok]

Batch(S) == IF S = {} THEN <<>> ELSE <<S>>

\* EmittedEvents
Event(type, peer, sdp) == [type |-> type, peer |-> peer, sdp |-> sdp]

\* ---------------------------------------------------------------- transports
\* no RTCPeerConnection
Free == [peer |-> "", senders |-> {}]

\* the RTCPeerConnections that exist: held by a Peer or leaked
LiveFor(p) == transports[p] # Free \/ \E t \in BagToSet(leaked) : t.peer = p

\* the senders attached to the connections that exist
AttachedSenders ==
    UNION {transports[c].senders : c \in PeerId} \cup
    UNION {t.senders : t \in BagToSet(leaked)}

\* a task spawned to read the RTCP packets of a sender is running: the task
\* of a sender ends when remove_track has stopped the sender; a sender that
\* got no task (add_track on a Peer that had a sender for the source id) is
\* attached next to the sender it replaced in the map, which has one
RtcpReaderRunning == AttachedSenders # {}

\* the RTCPeerConnections that exist
LiveCount(ts, lk) == Cardinality({c \in PeerId : ts[c] # Free}) + BagCardinality(lk)

\* the Arc<RTCPeerConnection> held by a Peer is dropped: the connection is
\* gone unless senders are still attached to it (each attached sender is
\* owned by the task that reads its RTCP packets until the sender is stopped)
Release(tr, c) ==
    [transports |-> [tr.transports EXCEPT ![c] = Free],
     leaked |-> IF tr.transports[c].senders = {}
                THEN tr.leaked
                ELSE tr.leaked (+) SetToBag({tr.transports[c]})]

\* no call has returned since the application took the last result
Idle == [op |-> "none", arg |-> "", cand |-> "", sdp |-> NoSdp,
         connection_state |-> "", existed |-> FALSE, result |-> "Ok",
         calls |-> <<>>, emitted |-> <<>>]

\* a send that puts the events in front of the events already in the channel
send_Front(ch, emitted) == emitted \o ch

\* UnboundedSender::send on an open channel: the events go to its tail
send(ch, emitted) == ch \o emitted

\* the calls that send a signal to the remote side when they succeed
Completed(op, arg, result) ==
    IF op \in {"dial", "accept_call"} /\ result = "Ok"
    THEN <<[op |-> op, peer |-> arg]>>
    ELSE <<>>

\* the application makes a Controller call and the call returns; last keeps
\* the call: its name, its arguments (arg: the peer or source id, cand, sdp),
\* whether arg was a key of the store before the call, the result, the calls
\* made on transports and the events sent
ReturnIn(op, arg, cand, sdp, existed, result, ps, ms, tr, tc, calls, emitted) ==
    /\ last = Idle
    /\ peers' = ps
    /\ media_sources' = ms
    /\ transports' = tr.transports
    /\ leaked' = tr.leaked
    /\ track_count' = tc
    /\ last' = [op |-> op, arg |-> arg, cand |-> cand, sdp |-> sdp,
                connection_state |-> "", existed |-> existed,
                result |-> result, calls |-> calls, emitted |-> emitted]
    /\ Len(chan) + Len(emitted) <= MaxChan
    /\ chan' = send(chan, emitted)
    /\ done' = done \o Completed(op, arg, result)
    /\ UNCHANGED <<rx_closed, task, mutex, source, sink,
                   worker, net>>

Return(op, arg, existed, result, ps, ms, tr, tc, calls, emitted) ==
    ReturnIn(op, arg, "", NoSdp, existed, result, ps, ms, tr, tc, calls,
             emitted)

\* the transports as they are
Tr == [transports |-> transports, leaked |-> leaked]

\* no step of the send path was taken
NoStep == [op |-> "", ok |-> TRUE, packets |-> <<>>, written |-> <<>>]

\* no SourceTrack was made yet
NoSourceTrack ==
    [init |-> FALSE, raw_samples |-> <<>>, captured |-> 0, frames |-> <<>>,
     chan |-> <<>>, closed |-> FALSE, task |-> "none",
     packetizer |-> [ssrc |-> [hi |-> 0, lo |-> 0], sequence_number |-> 0,
                     timestamp |-> [hi |-> 0, lo |-> 0]],
     packets |-> <<>>, track |-> <<>>, last |-> NoStep]

\* no step of the receive path was taken
NoSinkStep == [op |-> "", before |-> <<>>, popped |-> <<>>, failed |-> {}, n |-> 0]

\* no SinkTrack was made yet
NoSinkTrack ==
    [init |-> FALSE, sample_builder |-> {}, samples |-> <<>>,
     consumer_dropped |-> FALSE, task |-> "none", data |-> <<>>,
     last |-> NoSinkStep]

\* no step of the worker was taken
NoWorkerStep == [op |-> "", peer |-> "", track |-> 0, packet |-> "",
                 writes |-> <<>>]

\* a MediaWorker that has no track yet, and its two channels
NewMediaWorker ==
    [control_rx |-> <<>>, control_closed |-> FALSE, media_rx |-> <<>>,
     media_closed |-> FALSE, outgoing_media_tracks |-> EmptyMap,
     running |-> TRUE, last |-> NoWorkerStep]

\* two endpoints that hold no Peer, nothing sent
NoCall ==
    [e \in PeerId |-> [peers |-> EmptyMap, events |-> <<>>, signals |-> <<>>,
                       dials |-> 0]]

\* ---------------------------------------------------------------- Init
Init ==
    /\ peers = EmptyMap
    /\ media_sources = EmptyMap
    /\ rx_closed = FALSE
    /\ transports = [c \in PeerId |-> Free]
    /\ leaked = EmptyBag
    /\ track_count = [s \in MediaSourceId |-> 0]
    /\ last = Idle
    /\ chan = <<>>
    /\ done = <<>>
    /\ task = [t \in Task |-> [pc |-> "idle", op |-> "", arg |-> ""]]
    /\ mutex = "none"
    /\ source = NoSourceTrack
    /\ sink = NoSinkTrack
    /\ worker = NewMediaWorker
    /\ net = NoCall

\* ---------------------------------------------------------------- connect
\* the Peer starts in the state accept_call leaves it in
NewPeer_WaitingForIce(peer_id) ==
    [state |-> "WaitingForIce", id |-> peer_id, connection |-> peer_id,
     rtp_senders |-> EmptyMap]

\* the Peer stored by connect before any track is attached
NewPeer(peer_id) ==
    [state |-> "WaitingForSdp", id |-> peer_id, connection |-> peer_id,
     rtp_senders |-> EmptyMap]

\* self.peers.insert(peer_id, Peer {..}): the Peer it replaces is dropped,
\* and the new Peer holds the new connection
InsertPeer(ps, tr, peer_id) ==
    LET old == IF peer_id \in Keys(ps) THEN Release(tr, peer_id) ELSE tr
    IN [peers |-> Insert(ps, peer_id, NewPeer(peer_id)),
        transports |-> [old.transports EXCEPT ![peer_id] =
                          [peer |-> peer_id, senders |-> {}]],
        leaked |-> old.leaked]

\* the senders collected by connect's loop over media_sources
ConnectSenders(ms, attach_fail) ==
    [s \in Keys(ms) \ attach_fail |-> ms[s]]

\* connect without the loop that attaches the media sources
connect_NoAttach(peer_id, new_ok, attach_fail) ==
    IF ~new_ok
    THEN [ok |-> FALSE, peers |-> peers, tr |-> Tr, calls |-> <<>>]
    ELSE LET ins == InsertPeer(peers, Tr, peer_id)
         IN [ok |-> TRUE, peers |-> ins.peers,
             tr |-> [transports |-> ins.transports, leaked |-> ins.leaked],
             calls |-> <<>>]

\* connect(peer_id); new_ok: new_peer_connection succeeds; attach_fail: the
\* sources whose add_track fails
connect(peer_id, new_ok, attach_fail) ==
    IF ~new_ok
    THEN [ok |-> FALSE, peers |-> peers, tr |-> Tr, calls |-> <<>>]
    ELSE LET ins == InsertPeer(peers, Tr, peer_id)
             rtp_senders == ConnectSenders(media_sources, attach_fail)
         IN [ok |-> TRUE,
             peers |-> [ins.peers EXCEPT ![peer_id].rtp_senders = rtp_senders],
             tr |-> [transports |->
                        [ins.transports EXCEPT ![peer_id].senders =
                           {<<s, rtp_senders[s]>> : s \in Keys(rtp_senders)}],
                     leaked |-> ins.leaked],
             calls |-> Batch({Call(peer_id, "add_track",
                                   <<s, media_sources[s]>>, NoSdp, "",
                                   s \notin attach_fail)
                              : s \in Keys(media_sources)})]

\* ---------------------------------------------------------------- dial
\* RTCPeerConnection::create_offer
create_offer(pc) == [kind |-> "offer", conn |-> pc]

DialSteps == {"new_peer_connection", "create_offer", "set_local_description"}

\* dial(peer_id); fail_at: the call that fails ("none": every call succeeds)
dial_with(peer_id, attach_fail, fail_at) ==
    LET existed == peer_id \in Keys(peers)
        c == connect(peer_id, fail_at # "new_peer_connection", attach_fail)
        Ret(result, calls, emitted) ==
            Return("dial", peer_id, existed, result, c.peers, media_sources,
                   c.tr, track_count, calls, emitted)
    IN
    /\ LiveCount(transports, leaked) < MaxConns
    /\ IF ~c.ok
       THEN Ret("new_peer_connection failed", c.calls, <<>>)
       ELSE
       LET pc == peer_id
           local_sdp == create_offer(pc)
           calls1 == Append(c.calls,
                       {Call(pc, "create_offer", NoTrack, NoSdp, "",
                             fail_at # "create_offer")})
           calls2 == Append(calls1,
                       {Call(pc, "set_local_description", NoTrack, local_sdp,
                             "", fail_at # "set_local_description")})
       IN
       IF fail_at = "create_offer"
       THEN Ret("create_offer failed", calls1, <<>>)
       ELSE IF fail_at = "set_local_description"
       THEN Ret("set_local_description failed", calls2, <<>>)
       ELSE IF rx_closed
       THEN Ret("send failed", calls2, <<>>)
       ELSE Ret("Ok", calls2, <<Event("CallInitiated", peer_id, local_sdp)>>)

dial(peer_id) ==
    \E attach_fail \in SUBSET Keys(media_sources) :
    \E fail_at \in DialSteps \cup {"none"} :
        dial_with(peer_id, attach_fail, fail_at)

\* ---------------------------------------------------------------- accept_call
\* RTCPeerConnection::create_answer
create_answer(pc) == [kind |-> "answer", conn |-> pc]

AcceptSteps == {"new_peer_connection", "set_remote_description",
                "create_answer", "set_local_description"}

\* accept_call that leaves the Peer in the state connect gave it
accept_call_with_NoTransition(peer_id, remote_sdp, attach_fail, fail_at) ==
    LET existed == peer_id \in Keys(peers)
        c == connect(peer_id, fail_at # "new_peer_connection", attach_fail)
        Ret(result, ps, calls, emitted) ==
            ReturnIn("accept_call", peer_id, "", remote_sdp, existed, result,
                     ps, media_sources, c.tr, track_count, calls, emitted)
    IN
    /\ LiveCount(transports, leaked) < MaxConns
    /\ IF ~c.ok
       THEN Ret("new_peer_connection failed", c.peers, c.calls, <<>>)
       ELSE
       LET pc == peer_id
           calls1 == Append(c.calls,
                       {Call(pc, "set_remote_description", NoTrack, remote_sdp,
                             "", fail_at # "set_remote_description")})
           answer == create_answer(pc)
           calls2 == Append(calls1,
                       {Call(pc, "create_answer", NoTrack, NoSdp, "",
                             fail_at # "create_answer")})
           calls3 == Append(calls2,
                       {Call(pc, "set_local_description", NoTrack, answer, "",
                             fail_at # "set_local_description")})
           ps3 == c.peers
       IN
       IF fail_at = "set_remote_description"
       THEN Ret("set_remote_description failed", c.peers, calls1, <<>>)
       ELSE IF fail_at = "create_answer"
       THEN Ret("create_answer failed", c.peers, calls2, <<>>)
       ELSE IF fail_at = "set_local_description"
       THEN Ret("set_local_description failed", c.peers, calls3, <<>>)
       ELSE IF peer_id \notin Keys(c.peers)
       THEN Ret("peer not found", c.peers, calls3, <<>>)
       ELSE IF rx_closed
       THEN Ret("send failed", ps3, calls3, <<>>)
       ELSE Ret("Ok", ps3, calls3, <<Event("Sdp", peer_id, answer)>>)

\* accept_call(peer_id, remote_sdp); fail_at: the call that fails
accept_call_with(peer_id, remote_sdp, attach_fail, fail_at) ==
    LET existed == peer_id \in Keys(peers)
        c == connect(peer_id, fail_at # "new_peer_connection", attach_fail)
        Ret(result, ps, calls, emitted) ==
            ReturnIn("accept_call", peer_id, "", remote_sdp, existed, result,
                     ps, media_sources, c.tr, track_count, calls, emitted)
    IN
    /\ LiveCount(transports, leaked) < MaxConns
    /\ IF ~c.ok
       THEN Ret("new_peer_connection failed", c.peers, c.calls, <<>>)
       ELSE
       LET pc == peer_id
           calls1 == Append(c.calls,
                       {Call(pc, "set_remote_description", NoTrack, remote_sdp,
                             "", fail_at # "set_remote_description")})
           answer == create_answer(pc)
           calls2 == Append(calls1,
                       {Call(pc, "create_answer", NoTrack, NoSdp, "",
                             fail_at # "create_answer")})
           calls3 == Append(calls2,
                       {Call(pc, "set_local_description", NoTrack, answer, "",
                             fail_at # "set_local_description")})
           ps3 == [c.peers EXCEPT ![peer_id].state = "WaitingForIce"]
       IN
       IF fail_at = "set_remote_description"
       THEN Ret("set_remote_description failed", c.peers, calls1, <<>>)
       ELSE IF fail_at = "create_answer"
       THEN Ret("create_answer failed", c.peers, calls2, <<>>)
       ELSE IF fail_at = "set_local_description"
       THEN Ret("set_local_description failed", c.peers, calls3, <<>>)
       ELSE IF peer_id \notin Keys(c.peers)
       THEN Ret("peer not found", c.peers, calls3, <<>>)
       ELSE IF rx_closed
       THEN Ret("send failed", ps3, calls3, <<>>)
       ELSE Ret("Ok", ps3, calls3, <<Event("Sdp", peer_id, answer)>>)

accept_call(peer_id, remote_sdp) ==
    \E attach_fail \in SUBSET Keys(media_sources) :
    \E fail_at \in AcceptSteps \cup {"none"} :
        accept_call_with(peer_id, remote_sdp, attach_fail, fail_at)

\* ---------------------------------------------------------------- hang_up
\* self.peers.remove(peer_id) and drop(peer)
RemovePeer(ps, tr, peer_id) ==
    LET rel == Release(tr, ps[peer_id].connection)
    IN [peers |-> Remove(ps, peer_id), transports |-> rel.transports,
        leaked |-> rel.leaked]

\* hang_up that empties the store when peer_id is not in it
HangUp_UnknownClears(ps, tr, peer_id, detach_fail) ==
    IF peer_id \notin Keys(ps)
    THEN [peers |-> EmptyMap, tr |-> tr, calls |-> <<>>]
    ELSE LET peer == ps[peer_id]
             pc == peer.connection
             ok == Keys(peer.rtp_senders) \ detach_fail
             tr1 == [tr EXCEPT !.transports[pc].senders =
                       @ \ {<<s, peer.rtp_senders[s]>> : s \in ok}]
             rm == RemovePeer(ps, tr1, peer_id)
         IN [peers |-> rm.peers,
             tr |-> [transports |-> rm.transports, leaked |-> rm.leaked],
             calls |-> Batch({Call(pc, "remove_track",
                                   <<s, peer.rtp_senders[s]>>, NoSdp, "",
                                   s \in ok)
                              : s \in Keys(peer.rtp_senders)})]

\* hang_up that keeps the Peer when a remove_track failed
HangUp_KeepOnFailure(ps, tr, peer_id, detach_fail) ==
    IF peer_id \notin Keys(ps)
    THEN [peers |-> ps, tr |-> tr, calls |-> <<>>]
    ELSE LET peer == ps[peer_id]
             pc == peer.connection
             ok == Keys(peer.rtp_senders) \ detach_fail
             tr1 == [tr EXCEPT !.transports[pc].senders =
                       @ \ {<<s, peer.rtp_senders[s]>> : s \in ok}]
             rm == RemovePeer(ps, tr1, peer_id)
             calls == Batch({Call(pc, "remove_track",
                                  <<s, peer.rtp_senders[s]>>, NoSdp, "",
                                  s \in ok)
                             : s \in Keys(peer.rtp_senders)})
         IN IF ok = Keys(peer.rtp_senders)
            THEN [peers |-> rm.peers,
                  tr |-> [transports |-> rm.transports, leaked |-> rm.leaked],
                  calls |-> calls]
            ELSE [peers |-> ps, tr |-> tr1, calls |-> calls]

\* the body of hang_up on the store ps and the transports tr; detach_fail:
\* the sources whose remove_track fails
HangUp(ps, tr, peer_id, detach_fail) ==
    IF peer_id \notin Keys(ps)
    THEN [peers |-> ps, tr |-> tr, calls |-> <<>>]
    ELSE LET peer == ps[peer_id]
             pc == peer.connection
             ok == Keys(peer.rtp_senders) \ detach_fail
             tr1 == [tr EXCEPT !.transports[pc].senders =
                       @ \ {<<s, peer.rtp_senders[s]>> : s \in ok}]
             rm == RemovePeer(ps, tr1, peer_id)
         IN [peers |-> rm.peers,
             tr |-> [transports |-> rm.transports, leaked |-> rm.leaked],
             calls |-> Batch({Call(pc, "remove_track",
                                   <<s, peer.rtp_senders[s]>>, NoSdp, "",
                                   s \in ok)
                              : s \in Keys(peer.rtp_senders)})]

\* hang_up(peer_id); detach_fail: the sources whose remove_track fails
hang_up_with(peer_id, detach_fail) ==
    LET h == HangUp(peers, Tr, peer_id, detach_fail)
    IN Return("hang_up", peer_id, peer_id \in Keys(peers), "Ok", h.peers,
              media_sources, h.tr, track_count, h.calls, <<>>)

hang_up(peer_id) ==
    \E detach_fail \in
         SUBSET (IF peer_id \in Keys(peers)
                 THEN Keys(peers[peer_id].rtp_senders) ELSE {}) :
        hang_up_with(peer_id, detach_fail)

\* ---------------------------------------------------------------- deinit
\* the sequences that list every element of S once
Orders(S) ==
    {q \in [1..Cardinality(S) -> S] :
        \A i, j \in 1..Cardinality(S) : q[i] = q[j] => i = j}

\* a loop that ends after the first peer id
HangUpAll_FirstOnly(ps, tr, order, detach_fail) ==
    IF order = <<>>
    THEN [peers |-> ps, tr |-> tr, calls |-> <<>>]
    ELSE LET h == HangUp(ps, tr, Head(order), detach_fail[Head(order)])
         IN [peers |-> h.peers, tr |-> h.tr, calls |-> h.calls]

\* deinit's loop: hang_up for the peer ids of order, one after the other
RECURSIVE HangUpAll(_, _, _, _)
HangUpAll(ps, tr, order, detach_fail) ==
    IF order = <<>>
    THEN [peers |-> ps, tr |-> tr, calls |-> <<>>]
    ELSE LET h == HangUp(ps, tr, Head(order), detach_fail[Head(order)])
             r == HangUpAll(h.peers, h.tr, Tail(order), detach_fail)
         IN [peers |-> r.peers, tr |-> r.tr, calls |-> h.calls \o r.calls]

deinit ==
    \E order \in Orders(Keys(peers)) :
    \E detach_fail \in [Keys(peers) -> SUBSET MediaSourceId] :
        /\ \A p \in Keys(peers) : detach_fail[p] \subseteq Keys(peers[p].rtp_senders)
        /\ LET h == HangUpAll(peers, Tr, order, detach_fail)
           IN Return("deinit", "", FALSE, "Ok", h.peers, media_sources, h.tr,
                     track_count, h.calls, <<>>)

\* ---------------------------------------------------------------- add_media_source
RECURSIVE Sum(_, _)
Sum(f, S) == IF S = {} THEN 0
             ELSE LET x == CHOOSE x \in S : TRUE IN f[x] + Sum(f, S \ {x})

\* add_media_source without the loop over the peers
AddSenders_NoFanOut(ps, source_id, track, attach_fail) == ps

\* a loop that stores no sender when an add_track failed
AddSenders_Abort(ps, source_id, track, attach_fail) ==
    IF attach_fail # {}
    THEN ps
    ELSE [p \in Keys(ps) |->
            [ps[p] EXCEPT !.rtp_senders = Insert(@, source_id, track)]]

\* the loop of add_media_source over the peers: a successful add_track
\* stores the sender under source_id, replacing the one stored before
AddSenders(ps, source_id, track, attach_fail) ==
    [p \in Keys(ps) |->
        IF p \in attach_fail
        THEN ps[p]
        ELSE [ps[p] EXCEPT !.rtp_senders = Insert(@, source_id, track)]]

add_media_source_with(source_id, attach_fail) ==
    LET track == track_count[source_id] + 1
        ms == Insert(media_sources, source_id, track)
        ok == Keys(peers) \ attach_fail
        ts == [c \in PeerId |->
                 IF \E p \in ok : peers[p].connection = c
                 THEN [transports[c] EXCEPT !.senders =
                         @ \cup {<<source_id, track>>}]
                 ELSE transports[c]]
    IN
    /\ Sum(track_count, MediaSourceId) < MaxTracks
    /\ Return("add_media_source", source_id, source_id \in Keys(media_sources),
              "Ok", AddSenders(peers, source_id, track, attach_fail), ms,
              [transports |-> ts, leaked |-> leaked],
              [track_count EXCEPT ![source_id] = track],
              Batch({Call(peers[p].connection, "add_track",
                          <<source_id, track>>, NoSdp, "", p \in ok)
                     : p \in Keys(peers)}),
              <<>>)

add_media_source(source_id) ==
    \E attach_fail \in SUBSET Keys(peers) :
        add_media_source_with(source_id, attach_fail)

\* ---------------------------------------------------------------- remove_media_source
\* the sender stays in the map when remove_track failed
RemoveSenders_OnlyDetached(ps, source_id, detach_fail) ==
    [p \in Keys(ps) |->
        IF p \in detach_fail
        THEN ps[p]
        ELSE [ps[p] EXCEPT !.rtp_senders = Remove(@, source_id)]]

\* the first failing remove_track ends the loop (remove_track(..).await?)
RemoveSenders_Abort(ps, source_id, detach_fail) ==
    IF detach_fail = {}
    THEN [p \in Keys(ps) |-> [ps[p] EXCEPT !.rtp_senders = Remove(@, source_id)]]
    ELSE ps

\* every sender of every Peer is removed from the map
RemoveSenders_All(ps, source_id, detach_fail) ==
    [p \in Keys(ps) |-> [ps[p] EXCEPT !.rtp_senders = EmptyMap]]

\* the loop of remove_media_source over the peers: the sender is removed
\* from the map whether or not remove_track succeeded
RemoveSenders(ps, source_id, detach_fail) ==
    [p \in Keys(ps) |-> [ps[p] EXCEPT !.rtp_senders = Remove(@, source_id)]]

\* remove_media_source(source_id); detach_fail: the peers whose remove_track
\* fails
remove_media_source_with(source_id, detach_fail) ==
    LET has == {p \in Keys(peers) : source_id \in Keys(peers[p].rtp_senders)}
        ok == has \ detach_fail
        ts == [c \in PeerId |->
                 IF \E p \in ok : peers[p].connection = c
                 THEN LET p == CHOOSE p \in ok : peers[p].connection = c
                      IN [transports[c] EXCEPT !.senders =
                            @ \ {<<source_id,
                                   peers[p].rtp_senders[source_id]>>}]
                 ELSE transports[c]]
    IN Return("remove_media_source", source_id,
              source_id \in Keys(media_sources), "Ok",
              RemoveSenders(peers, source_id, detach_fail),
              Remove(media_sources, source_id),
              [transports |-> ts, leaked |-> leaked], track_count,
              Batch({Call(peers[p].connection, "remove_track",
                          <<source_id, peers[p].rtp_senders[source_id]>>,
                          NoSdp, "", p \in ok) : p \in has}),
              <<>>)

remove_media_source(source_id) ==
    LET has == {p \in Keys(peers) : source_id \in Keys(peers[p].rtp_senders)}
    IN
    \E detach_fail \in SUBSET has :
        remove_media_source_with(source_id, detach_fail)

\* ---------------------------------------------------------------- recv_ice, recv_sdp
RecvIceSteps == {"to_json", "add_ice_candidate"}

\* RTCIceCandidate::to_json, successful
to_json(candidate) == [candidate |-> "candidate:" \o candidate, sdp_mid |-> "0"]

\* RTCIceCandidateInit { candidate, ..Default::default() }
RTCIceCandidateInit(candidate) == [candidate |-> candidate, sdp_mid |-> ""]

\* recv_ice that removes the Peer whose connection refused the candidate
recv_ice_with_DropsPeer(peer_id, candidate, fail_at) ==
    LET Ret(result, ps, calls) ==
            ReturnIn("recv_ice", peer_id, candidate, NoSdp,
                     peer_id \in Keys(peers), result, ps, media_sources, Tr,
                     track_count, calls, <<>>)
    IN
    IF peer_id \in Keys(peers)
    THEN LET pc == peers[peer_id].connection
             init == RTCIceCandidateInit(to_json(candidate).candidate)
             calls == <<{Call(pc, "add_ice_candidate", NoTrack, NoSdp,
                              init.candidate, fail_at # "add_ice_candidate")}>>
         IN IF fail_at = "to_json"
            THEN Ret("to_json failed", peers, <<>>)
            ELSE IF fail_at = "add_ice_candidate"
            THEN Ret("add_ice_candidate failed", Remove(peers, peer_id), calls)
            ELSE Ret("Ok", peers, calls)
    ELSE Ret("peer not found", peers, <<>>)

\* recv_ice(peer_id, candidate); fail_at: the call that fails
recv_ice_with(peer_id, candidate, fail_at) ==
    LET Ret(result, calls) ==
            ReturnIn("recv_ice", peer_id, candidate, NoSdp,
                     peer_id \in Keys(peers), result, peers, media_sources, Tr,
                     track_count, calls, <<>>)
    IN
    IF peer_id \in Keys(peers)
    THEN LET pc == peers[peer_id].connection
             init == RTCIceCandidateInit(to_json(candidate).candidate)
             calls == <<{Call(pc, "add_ice_candidate", NoTrack, NoSdp,
                              init.candidate, fail_at # "add_ice_candidate")}>>
         IN IF fail_at = "to_json"
            THEN Ret("to_json failed", <<>>)
            ELSE IF fail_at = "add_ice_candidate"
            THEN Ret("add_ice_candidate failed", calls)
            ELSE Ret("Ok", calls)
    ELSE Ret("peer not found", <<>>)

recv_ice(peer_id, candidate) ==
    \E fail_at \in RecvIceSteps \cup {"none"} :
        recv_ice_with(peer_id, candidate, fail_at)

\* recv_sdp that hands the description to the connection of every Peer
recv_sdp_with_Broadcast(peer_id, sdp, set_ok) ==
    LET Ret(result, calls) ==
            ReturnIn("recv_sdp", peer_id, "", sdp, peer_id \in Keys(peers),
                     result, peers, media_sources, Tr, track_count, calls,
                     <<>>)
    IN
    IF peer_id \in Keys(peers)
    THEN LET calls == <<{Call(peers[p].connection, "set_remote_description",
                              NoTrack, sdp, "", set_ok) : p \in Keys(peers)}>>
         IN IF ~set_ok
            THEN Ret("set_remote_description failed", calls)
            ELSE Ret("Ok", calls)
    ELSE Ret("peer not found", <<>>)

\* recv_sdp that marks the Peer as connected once the answer is set
recv_sdp_with_Connects(peer_id, sdp, set_ok) ==
    LET Ret(result, ps, calls) ==
            ReturnIn("recv_sdp", peer_id, "", sdp, peer_id \in Keys(peers),
                     result, ps, media_sources, Tr, track_count, calls,
                     <<>>)
    IN
    IF peer_id \in Keys(peers)
    THEN LET pc == peers[peer_id].connection
             calls == <<{Call(pc, "set_remote_description", NoTrack, sdp, "",
                              set_ok)}>>
         IN IF ~set_ok
            THEN Ret("set_remote_description failed", peers, calls)
            ELSE Ret("Ok", [peers EXCEPT ![peer_id].state = "Connected"],
                     calls)
    ELSE Ret("peer not found", peers, <<>>)

recv_sdp_with(peer_id, sdp, set_ok) ==
    LET Ret(result, calls) ==
            ReturnIn("recv_sdp", peer_id, "", sdp, peer_id \in Keys(peers),
                     result, peers, media_sources, Tr, track_count, calls,
                     <<>>)
    IN
    IF peer_id \in Keys(peers)
    THEN LET pc == peers[peer_id].connection
             calls == <<{Call(pc, "set_remote_description", NoTrack, sdp, "",
                              set_ok)}>>
         IN IF ~set_ok
            THEN Ret("set_remote_description failed", calls)
            ELSE Ret("Ok", calls)
    ELSE Ret("peer not found", <<>>)

recv_sdp(peer_id, sdp) ==
    \E set_ok \in BOOLEAN : recv_sdp_with(peer_id, sdp, set_ok)

\* ---------------------------------------------------------------- callbacks
IceEvent(peer, candidate) ==
    [type |-> "Ice", peer |-> peer, sdp |-> NoSdp, candidate |-> candidate]

Callbacks == {"on_ice_candidate", "on_ice_connection_state_change", "on_track"}

\* a callback registered by connect(dest) runs on a connection that exists;
\* event: the event it sends, if any.  A failed send is logged
Callback(op, dest, connection_state, cand, event) ==
    LET emitted == IF rx_closed THEN <<>> ELSE event
    IN
    /\ last = Idle
    /\ LiveFor(dest)
    /\ Len(chan) + Len(emitted) <= MaxChan
    /\ last' = [Idle EXCEPT !.op = op, !.arg = dest, !.cand = cand,
                            !.connection_state = connection_state,
                            !.existed = dest \in Keys(peers),
                            !.result = IF event # <<>> /\ rx_closed
                                       THEN "send failed" ELSE "Ok",
                            !.emitted = emitted]
    /\ chan' = send(chan, emitted)
    /\ UNCHANGED <<peers, media_sources, rx_closed, transports, leaked,
                   track_count, done, task, mutex, source, sink,
                   worker, net>>

\* the callback sends Disconnected for every state the connection reports
on_ice_connection_state_change_Always(dest, connection_state) ==
    Callback("on_ice_connection_state_change", dest, connection_state, "",
             <<Event("Disconnected", dest, NoSdp)>>)

\* on_ice_connection_state_change: Disconnected is sent for Failed only
on_ice_connection_state_change(dest, connection_state) ==
    Callback("on_ice_connection_state_change", dest, connection_state, "",
             IF connection_state = "Failed"
             THEN <<Event("Disconnected", dest, NoSdp)>>
             ELSE <<>>)

\* on_ice_candidate: c is a candidate, or "" for None (gathering is over)
on_ice_candidate(dest, c) ==
    Callback("on_ice_candidate", dest, "", c,
             IF c # "" THEN <<IceEvent(dest, c)>> ELSE <<>>)

\* on_track: has_track is false for None
on_track(dest, has_track) ==
    Callback("on_track", dest, "", "",
             IF has_track THEN <<Event("TrackAdded", dest, NoSdp)>> ELSE <<>>)

\* ---------------------------------------------------------------- application
\* q without its first element for peer
RECURSIVE RemoveFirst(_, _)
RemoveFirst(q, peer) ==
    IF q = <<>> THEN <<>>
    ELSE IF Head(q).peer = peer THEN Tail(q)
    ELSE <<Head(q)>> \o RemoveFirst(Tail(q), peer)

\* UnboundedReceiver::recv takes the event at the head of the channel
recv ==
    /\ chan # <<>>
    /\ chan' = Tail(chan)
    /\ done' = IF Head(chan).type \in {"CallInitiated", "Sdp"}
               THEN RemoveFirst(done, Head(chan).peer)
               ELSE done
    /\ UNCHANGED <<peers, media_sources, rx_closed, transports, leaked,
                   track_count, last, mutex, source, sink,
                   worker, net>>

\* the UnboundedReceiver is dropped with the events it holds: every later
\* send fails
close ==
    /\ ~rx_closed
    /\ rx_closed' = TRUE
    /\ chan' = <<>>
    /\ done' = <<>>
    /\ UNCHANGED <<peers, media_sources, transports, leaked, track_count,
                   last, mutex, source, sink,
                   worker, net>>

\* the application receives an event
Recv == recv /\ UNCHANGED task

\* the application drops the UnboundedReceiver
CloseReceiver == close /\ UNCHANGED task

\* the application takes the result of the call and goes on
TakeResult ==
    /\ last # Idle
    /\ last' = Idle
    /\ UNCHANGED <<peers, media_sources, rx_closed, transports, leaked,
                   track_count, chan, done, task, mutex, source, sink,
                   worker, net>>

\* the application has received every event sent so far
Drained == chan = <<>>

\* ---------------------------------------------------------------- Next
\* an application that makes one Controller call at a time and receives the
\* events of a call before the next call or callback
Next ==
    \/ \E p \in PeerId : Drained /\ dial(p)
    \/ \E p \in PeerId, sdp \in RTCSessionDescription :
           Drained /\ accept_call(p, sdp)
    \/ \E p \in PeerId : Drained /\ hang_up(p)
    \/ Drained /\ deinit
    \/ \E s \in MediaSourceId : Drained /\ add_media_source(s)
    \/ \E s \in MediaSourceId : Drained /\ remove_media_source(s)
    \/ \E p \in PeerId, cand \in RTCIceCandidate : Drained /\ recv_ice(p, cand)
    \/ \E p \in PeerId, sdp \in RTCSessionDescription :
           Drained /\ recv_sdp(p, sdp)
    \/ \E p \in PeerId, st \in RTCIceConnectionState :
           Drained /\ on_ice_connection_state_change(p, st)
    \/ \E p \in PeerId, c \in RTCIceCandidate \cup {""} :
           Drained /\ on_ice_candidate(p, c)
    \/ \E p \in PeerId, has_track \in BOOLEAN : Drained /\ on_track(p, has_track)
    \/ Recv
    \/ CloseReceiver
    \/ TakeResult

Spec == Init /\ [][Next]_vars

\* ---------------------------------------------------------------- example application
\* the id of the other client, given on the command line
peer_address == "B"

\* a lock() that does not wait for the task that holds the Mutex
Lock_NoWait(t) ==
    /\ task[t].pc = "lock"
    /\ mutex' = t
    /\ task' = [task EXCEPT ![t].pc = "call"]
    /\ UNCHANGED <<peers, media_sources, rx_closed, transports, leaked,
                   track_count, last, chan, done, source, sink,
                   worker, net>>

\* `let s = swrtc.lock().await`: the task waits until the Mutex is free
Lock(t) ==
    /\ task[t].pc = "lock"
    /\ mutex = "none"
    /\ mutex' = t
    /\ task' = [task EXCEPT ![t].pc = "call"]
    /\ UNCHANGED <<peers, media_sources, rx_closed, transports, leaked,
                   track_count, last, chan, done, source, sink,
                   worker, net>>

\* the Controller call of a task that holds the MutexGuard runs and returns
ControllerCall(t) ==
    /\ task[t].pc = "call"
    /\ \/ task[t].op = "add_media_source" /\ add_media_source(task[t].arg)
       \/ task[t].op = "dial" /\ dial(task[t].arg)
       \/ task[t].op = "accept_call" /\
              \E sdp \in RTCSessionDescription : accept_call(task[t].arg, sdp)
       \/ task[t].op = "hang_up" /\ hang_up(task[t].arg)
       \/ task[t].op = "recv_ice" /\
              \E cand \in RTCIceCandidate : recv_ice(task[t].arg, cand)
       \/ task[t].op = "recv_sdp" /\
              \E sdp \in RTCSessionDescription : recv_sdp(task[t].arg, sdp)
       \/ task[t].op = "deinit" /\ deinit

\* the task goes on after its call returned: the MutexGuard is dropped at
\* the end of its block.  handle_signals calls hang_up under the same guard
\* when accept_call failed; handle_swrtc returns when a call failed
Unlock(t) ==
    LET again == t = "handle_signals" /\ last.op = "accept_call"
                                      /\ last.result # "Ok"
    IN
    /\ task[t].pc = "call"
    /\ last # Idle
    /\ last.op \notin Callbacks
    /\ last' = Idle
    /\ mutex' = IF again THEN mutex ELSE "none"
    /\ \/ /\ again
          /\ task' = [task EXCEPT ![t].op = "hang_up"]
       \/ /\ ~again
          /\ t = "handle_swrtc"
          /\ last.op = "add_media_source"
          /\ task' = [task EXCEPT ![t] = [pc |-> "lock", op |-> "dial",
                                           arg |-> peer_address]]
       \/ /\ ~again
          /\ t = "handle_swrtc"
          /\ last.op = "dial"
          /\ task' = [task EXCEPT ![t].pc =
                         IF last.result = "Ok" THEN "loop" ELSE "done"]
       \/ /\ ~again
          /\ t \in {"handle_signals", "handle_events"}
          /\ task' = [task EXCEPT ![t].pc = "idle"]
       \/ /\ t = "main"
          /\ task' = [task EXCEPT ![t].pc = "done"]
    /\ UNCHANGED <<peers, media_sources, rx_closed, transports, leaked,
                   track_count, chan, done, source, sink,
                   worker, net>>

\* handle_swrtc starts with add_media_source("audio")
handle_swrtc ==
    /\ task["handle_swrtc"] = [pc |-> "idle", op |-> "", arg |-> ""]
    /\ task' = [task EXCEPT !["handle_swrtc"] =
                  [pc |-> "lock", op |-> "add_media_source", arg |-> "audio"]]
    /\ UNCHANGED <<peers, media_sources, rx_closed, transports, leaked,
                   track_count, last, chan, done, mutex, source, sink,
                   worker, net>>

\* the Controller call handle_signals makes for each PeerSignal
PeerSignal ==
    [Ice |-> "recv_ice", Sdp |-> "recv_sdp", CallInitiated |-> "accept_call",
     CallTerminated |-> "hang_up", CallRejected |-> "hang_up"]

\* handle_signals receives a signal sent by src, the other client
handle_signals(sig, src) ==
    /\ task["handle_signals"].pc = "idle"
    /\ task' = [task EXCEPT !["handle_signals"] =
                  [pc |-> "lock", op |-> PeerSignal[sig], arg |-> src]]
    /\ UNCHANGED <<peers, media_sources, rx_closed, transports, leaked,
                   track_count, last, chan, done, mutex, source, sink,
                   worker, net>>

\* handle_events receives an event: it calls hang_up for Disconnected and
\* passes a signal on to the remote side; sent: the signal could be sent
handle_events(sent) ==
    LET evt == Head(chan)
    IN
    /\ task["handle_events"].pc = "idle"
    /\ chan # <<>>
    /\ IF evt.type = "Disconnected"
       THEN /\ recv
            /\ task' = [task EXCEPT !["handle_events"] =
                          [pc |-> "lock", op |-> "hang_up", arg |-> evt.peer]]
       ELSE IF sent \/ evt.type = "TrackAdded"
       THEN recv /\ UNCHANGED task
       ELSE /\ close
            /\ task' = [task EXCEPT !["handle_events"].pc = "done"]

\* the select! over the handlers ends, because a handler returned or on
\* ctrl_c: the handlers are dropped where they are, with the MutexGuard and
\* the UnboundedReceiver they hold, and main goes on to deinit
run ==
    /\ task["main"] = [pc |-> "idle", op |-> "", arg |-> ""]
    /\ task' = [t \in Task |->
                 IF t = "main"
                 THEN [pc |-> "lock", op |-> "deinit", arg |-> ""]
                 ELSE [task[t] EXCEPT !.pc = "done"]]
    /\ mutex' = "none"
    /\ last' = IF last.op \in Callbacks THEN last ELSE Idle
    /\ rx_closed' = TRUE
    /\ chan' = <<>>
    /\ done' = <<>>
    /\ UNCHANGED <<peers, media_sources, transports, leaked, track_count, source, sink,
                   worker, net>>

NextApp ==
    \/ \E t \in Task : Lock(t)
    \/ \E t \in Task : ControllerCall(t)
    \/ \E t \in Task : Unlock(t)
    \/ handle_swrtc
    \/ \E sig \in DOMAIN PeerSignal : handle_signals(sig, peer_address)
    \/ \E sent \in BOOLEAN : handle_events(sent)
    \/ run
    \/ \E p \in PeerId, st \in RTCIceConnectionState :
           on_ice_connection_state_change(p, st)
    \/ \E p \in PeerId, c \in RTCIceCandidate \cup {""} : on_ice_candidate(p, c)
    \/ \E p \in PeerId, has_track \in BOOLEAN : on_track(p, has_track)
    \/ last.op \in Callbacks /\ TakeResult

SpecApp == Init /\ [][NextApp]_vars

\* ---------------------------------------------------------------- signals only
\* dial and accept_call, the callbacks of the connections and an application
\* that receives the events at its own pace
NextSignals ==
    \/ \E p \in PeerId : dial(p)
    \/ \E p \in PeerId, sdp \in RTCSessionDescription : accept_call(p, sdp)
    \/ \E p \in PeerId, st \in RTCIceConnectionState :
           on_ice_connection_state_change(p, st)
    \/ \E p \in PeerId, c \in RTCIceCandidate \cup {""} : on_ice_candidate(p, c)
    \/ Recv
    \/ CloseReceiver
    \/ TakeResult

SpecSignals == Init /\ [][NextSignals]_vars

\* ---------------------------------------------------------------- fan-out only
\* add_media_source with a source id that is not registered, dial and
\* accept_call, in any order, every call into webrtc-rs succeeding
NextFanOut ==
    \/ \E s \in MediaSourceId \ Keys(media_sources) : add_media_source_with(s, {})
    \/ \E p \in PeerId : dial_with(p, {}, "none")
    \/ \E p \in PeerId, sdp \in RTCSessionDescription :
           accept_call_with(p, sdp, {}, "none")
    \/ TakeResult

SpecFanOut == Init /\ [][NextFanOut]_vars

\* ---------------------------------------------------------------- gathering
\* dial and accept_call in two steps: set_local_description starts the
\* gathering of candidates on the tasks of the connection, which run next to
\* the task that is inside the call; the call then sends its signal.  Every
\* transport call succeeds

\* dial(peer_id) up to the return of set_local_description
dial_gathering(peer_id) ==
    LET c == connect(peer_id, TRUE, {})
        pc == peer_id
        local_sdp == create_offer(pc)
    IN
    /\ LiveCount(transports, leaked) < MaxConns
    /\ Return("dial", peer_id, peer_id \in Keys(peers), "gathering", c.peers,
              media_sources, c.tr, track_count,
              c.calls \o
                <<{Call(pc, "create_offer", NoTrack, NoSdp, "", TRUE)},
                  {Call(pc, "set_local_description", NoTrack, local_sdp, "",
                        TRUE)}>>,
              <<>>)

\* accept_call(peer_id, remote_sdp) up to the return of set_local_description
accept_call_gathering(peer_id, remote_sdp) ==
    LET c == connect(peer_id, TRUE, {})
        pc == peer_id
        answer == create_answer(pc)
    IN
    /\ LiveCount(transports, leaked) < MaxConns
    /\ ReturnIn("accept_call", peer_id, "", remote_sdp,
                peer_id \in Keys(peers), "gathering", c.peers, media_sources,
                c.tr, track_count,
                c.calls \o
                  <<{Call(pc, "set_remote_description", NoTrack, remote_sdp,
                          "", TRUE)},
                    {Call(pc, "create_answer", NoTrack, NoSdp, "", TRUE)},
                    {Call(pc, "set_local_description", NoTrack, answer, "",
                          TRUE)}>>,
                <<>>)

\* on_ice_candidate of the connection made by the call that has not sent its
\* signal yet: the callback sends on its own clone of the sender
on_ice_candidate_gathering(c) ==
    /\ last.result = "gathering"
    /\ Len(chan) < MaxChan
    /\ chan' = IF rx_closed THEN chan
               ELSE send(chan, <<IceEvent(last.arg, c)>>)
    /\ UNCHANGED <<peers, media_sources, rx_closed, transports, leaked,
                   track_count, last, done, task, mutex, source, sink,
                   worker, net>>

\* the rest of dial and accept_call: accept_call sets the state of the Peer,
\* and the signal of the call is sent
signal_after_gathering ==
    LET dest == last.arg
        event == IF last.op = "dial"
                 THEN Event("CallInitiated", dest, create_offer(dest))
                 ELSE Event("Sdp", dest, create_answer(dest))
        result == IF rx_closed THEN "send failed" ELSE "Ok"
        emitted == IF rx_closed THEN <<>> ELSE <<event>>
    IN
    /\ last.result = "gathering"
    /\ Len(chan) + Len(emitted) <= MaxChan
    /\ peers' = IF last.op = "accept_call"
                THEN [peers EXCEPT ![dest].state = "WaitingForIce"]
                ELSE peers
    /\ last' = [last EXCEPT !.result = result, !.emitted = emitted]
    /\ chan' = send(chan, emitted)
    /\ done' = done \o Completed(last.op, dest, result)
    /\ UNCHANGED <<media_sources, rx_closed, transports, leaked, track_count,
                   task, mutex, source, sink,
                   worker, net>>

NextGathering ==
    \/ \E p \in PeerId : Drained /\ dial_gathering(p)
    \/ \E p \in PeerId, sdp \in RTCSessionDescription :
           Drained /\ accept_call_gathering(p, sdp)
    \/ \E c \in RTCIceCandidate : on_ice_candidate_gathering(c)
    \/ signal_after_gathering
    \/ \E p \in PeerId, c \in RTCIceCandidate \cup {""} : on_ice_candidate(p, c)
    \/ \E p \in PeerId : Drained /\ hang_up_with(p, {})
    \/ Recv
    \/ TakeResult

SpecGathering == Init /\ [][NextGathering]_vars

\* ---------------------------------------------------------------- no failed detach
\* every Controller call, in any order, no remove_track failing
NextDetachOk ==
    \/ \E s \in MediaSourceId : add_media_source(s)
    \/ \E s \in MediaSourceId : remove_media_source_with(s, {})
    \/ \E p \in PeerId : dial(p)
    \/ \E p \in PeerId, sdp \in RTCSessionDescription : accept_call(p, sdp)
    \/ \E p \in PeerId : hang_up_with(p, {})
    \/ Recv
    \/ TakeResult

SpecDetachOk == Init /\ [][NextDetachOk]_vars

\* ---------------------------------------------------------------- send path
\* example/src/lib.rs: the input callback of the audio device gives its
\* samples to an OpusFramer, every compressed frame goes through an unbounded
\* channel to a task that packetizes it and writes the packets to the track

\* the number of samples in a frame
frame_size == 120

\* the most samples the input device captures
MaxSamples == 360

\* the lengths of the slices the input callback is called with
DataLen == {1, 3}

u16 == 2 ^ 16

\* a u32 as its two 16-bit halves (the integers of TLC end at 2^31 - 1)
U32(hi, lo) == [hi |-> hi, lo |-> lo]

\* u32::wrapping_add of n < 2^16
wrapping_add(x, n) ==
    U32((x.hi + ((x.lo + n) \div u16)) % u16, (x.lo + n) % u16)

\* the values rng.gen() and new_random_sequencer may start from
Ssrc == {U32(0, 7), U32(u16 - 1, u16 - 1)}
FirstSequenceNumber == {0, u16 - 2}
FirstTimestamp == {U32(0, 0), U32(u16 - 1, u16 - 200)}

\* the i-th sample the device captures
Sample(i) == (i * 257) % (2 ^ 15)

ControllerVars ==
    <<peers, media_sources, rx_closed, transports, leaked, track_count,
      last, chan, done, task, mutex>>

\* SourceTrack::init: an empty framer, the channel, a packetizer with a
\* random ssrc, sequence number and timestamp, and the spawned task
SourceTrack_init(ssrc, seq, timestamp) ==
    /\ ~source.init
    /\ source' = [NoSourceTrack EXCEPT
           !.init = TRUE,
           !.task = "running",
           !.packetizer = [ssrc |-> ssrc, sequence_number |-> seq,
                           timestamp |-> timestamp]]
    /\ UNCHANGED <<ControllerVars, sink, worker, net>>

\* opus::Encoder::encode on a full frame: the compressed frame is known by
\* the samples it was made from
encode(raw_samples) ==
    [first |-> raw_samples[1], last |-> raw_samples[Len(raw_samples)],
     samples |-> Len(raw_samples)]

\* the framer emits one sample late
frame_OffByOne(raw_samples, sample, encode_ok) ==
    LET raw == Append(raw_samples, sample) IN
    IF Len(raw) > frame_size
    THEN IF encode_ok
         THEN [raw_samples |-> <<>>, bytes |-> <<encode(raw)>>]
         ELSE [raw_samples |-> raw, bytes |-> <<>>]
    ELSE [raw_samples |-> raw, bytes |-> <<>>]

\* OpusFramer::frame: the buffer after the call and the Option<Bytes> it
\* returns, as a sequence of at most one frame
frame(raw_samples, sample, encode_ok) ==
    LET raw == Append(raw_samples, sample) IN
    IF Len(raw) = frame_size
    THEN IF encode_ok
         THEN [raw_samples |-> <<>>, bytes |-> <<encode(raw)>>]
         ELSE [raw_samples |-> raw, bytes |-> <<>>]
    ELSE [raw_samples |-> raw, bytes |-> <<>>]

\* for sample in data: the framer is given the samples one at a time and
\* every frame it returns is sent; st.frames keeps, for each frame, the
\* number of samples captured when it was returned
RECURSIVE ForSample(_, _, _)
ForSample(st, n, encode_ok) ==
    IF n = 0 THEN st
    ELSE LET captured == st.captured + 1
             r == frame(st.raw_samples, Sample(captured), encode_ok)
         IN  ForSample(
                 [st EXCEPT
                     !.raw_samples = r.raw_samples,
                     !.captured = captured,
                     !.chan = send(@, r.bytes),
                     !.frames = @ \o [i \in 1..Len(r.bytes) |->
                                        [bytes |-> r.bytes[i], at |-> captured]]],
                 n - 1, encode_ok)

\* the input callback of the device, with a slice of n samples
input_data_fn(n, encode_ok) ==
    /\ source.init
    /\ ~source.closed
    /\ source.captured + n <= MaxSamples
    /\ source' = [ForSample(source, n, encode_ok) EXCEPT
                     !.last = [NoStep EXCEPT !.op = "input_data_fn"]]
    /\ UNCHANGED <<ControllerVars, sink, worker, net>>

\* Packetizer::packetize with the OpusPayloader: one packet for the frame,
\* with the next sequence number and the timestamp of the packetizer, which
\* then advances by the number of samples; an error changes nothing
packetize(packetizer, payload, samples, ok) ==
    IF ok
    THEN [packetizer |-> [packetizer EXCEPT
              !.sequence_number = (@ + 1) % u16,
              !.timestamp = wrapping_add(@, samples)],
          packets |-> <<[ssrc |-> packetizer.ssrc,
                         sequence_number |-> packetizer.sequence_number,
                         timestamp |-> packetizer.timestamp,
                         payload |-> payload]>>]
    ELSE [packetizer |-> packetizer, packets |-> <<>>]

\* the task ends when a frame cannot be packetized or written
packetizer_task_StopOnError(packetize_ok, write_ok) ==
    /\ source.task = "running"
    /\ source.chan # <<>>
    /\ LET bytes == Head(source.chan)
           r == packetize(source.packetizer, bytes, frame_size, packetize_ok)
           written == IF write_ok THEN r.packets ELSE <<>>
       IN  source' = [source EXCEPT
               !.chan = Tail(@),
               !.packetizer = r.packetizer,
               !.packets = @ \o r.packets,
               !.track = @ \o written,
               !.task = IF packetize_ok /\ write_ok THEN @ ELSE "done",
               !.last = [op |-> "packetize", ok |-> packetize_ok,
                         packets |-> r.packets, written |-> written]]
    /\ UNCHANGED <<ControllerVars, sink, worker, net>>

\* the timestamp advances by the bytes of the samples
packetizer_task_Bytes(packetize_ok, write_ok) ==
    /\ source.task = "running"
    /\ source.chan # <<>>
    /\ LET bytes == Head(source.chan)
           r == packetize(source.packetizer, bytes, frame_size * 2,
                          packetize_ok)
           written == IF write_ok THEN r.packets ELSE <<>>
       IN  source' = [source EXCEPT
               !.chan = Tail(@),
               !.packetizer = r.packetizer,
               !.packets = @ \o r.packets,
               !.track = @ \o written,
               !.last = [op |-> "packetize", ok |-> packetize_ok,
                         packets |-> r.packets, written |-> written]]
    /\ UNCHANGED <<ControllerVars, sink, worker, net>>

\* one turn of the loop of the spawned task: a frame is received, packetized
\* and every packet is written to the track; errors are logged
packetizer_task(packetize_ok, write_ok) ==
    /\ source.task = "running"
    /\ source.chan # <<>>
    /\ LET bytes == Head(source.chan)
           r == packetize(source.packetizer, bytes, frame_size, packetize_ok)
           written == IF write_ok THEN r.packets ELSE <<>>
       IN  source' = [source EXCEPT
               !.chan = Tail(@),
               !.packetizer = r.packetizer,
               !.packets = @ \o r.packets,
               !.track = @ \o written,
               !.last = [op |-> "packetize", ok |-> packetize_ok,
                         packets |-> r.packets, written |-> written]]
    /\ UNCHANGED <<ControllerVars, sink, worker, net>>

\* consumer.recv() returns None: the channel is closed and empty
packetizer_task_quit ==
    /\ source.task = "running"
    /\ source.chan = <<>>
    /\ source.closed
    /\ source' = [source EXCEPT !.task = "done",
                                !.last = [NoStep EXCEPT !.op = "quit"]]
    /\ UNCHANGED <<ControllerVars, sink, worker, net>>

\* the SourceTrack is dropped: its stream, the callback and the producer
drop_SourceTrack ==
    /\ source.init
    /\ ~source.closed
    /\ source' = [source EXCEPT !.closed = TRUE,
                                !.last = [NoStep EXCEPT !.op = "drop"]]
    /\ UNCHANGED <<ControllerVars, sink, worker, net>>

NextSource ==
    \/ \E ssrc \in Ssrc, seq \in FirstSequenceNumber, ts \in FirstTimestamp :
           SourceTrack_init(ssrc, seq, ts)
    \/ \E n \in DataLen, encode_ok \in BOOLEAN : input_data_fn(n, encode_ok)
    \/ \E packetize_ok \in BOOLEAN, write_ok \in BOOLEAN :
           packetizer_task(packetize_ok, write_ok)
    \/ packetizer_task_quit
    \/ drop_SourceTrack

SpecSource == Init /\ [][NextSource]_vars

\* the send path with a compressor that always succeeds
NextSourceOk ==
    \/ \E ssrc \in Ssrc, seq \in FirstSequenceNumber, ts \in FirstTimestamp :
           SourceTrack_init(ssrc, seq, ts)
    \/ \E n \in DataLen : input_data_fn(n, TRUE)
    \/ \E packetize_ok \in BOOLEAN, write_ok \in BOOLEAN :
           packetizer_task(packetize_ok, write_ok)
    \/ packetizer_task_quit
    \/ drop_SourceTrack

SpecSourceOk == Init /\ [][NextSourceOk]_vars

\* ---------------------------------------------------------------- receive path
\* example/src/lib.rs: a task reads the packets of the remote track, gives
\* them to a SampleBuilder, decodes every sample the builder returns and sends
\* the decoded samples through an unbounded channel to the output callback

\* the most decoded samples waiting for the output callback
MaxQueue == 4

\* the packets of the remote track
RemotePacket ==
    {[sequence_number |-> s, payload |-> (s % 4) + 1] : s \in {u16 - 1, 0, 1}}

\* the lengths of the slices the output callback is called with
OutLen == {1, 3}

\* what the output buffer holds before the callback writes it
Stale == -1

\* SinkTrack::init: the channel, the SampleBuilder and the spawned task
SinkTrack_init ==
    /\ ~sink.init
    /\ sink' = [NoSinkTrack EXCEPT !.init = TRUE, !.task = "running"]
    /\ UNCHANGED <<ControllerVars, source, worker, net>>

\* opus::Decoder::decode: the samples of a frame
decode(payload) == <<payload * 10 + 1, payload * 10 + 2>>

\* the sequences of distinct elements of S
Distinct(S) ==
    {q \in UNION {[1..k -> S] : k \in 0..Cardinality(S)} :
        \A i, j \in DOMAIN q : i # j => q[i] # q[j]}

\* while let Some(media_sample) = sample_builder.pop(): every sample is
\* decoded and, unless the decoder fails, its samples are sent; a send to a
\* dropped consumer is an error that is logged
RECURSIVE DecodeSamples(_, _, _, _)
DecodeSamples(queue, popped, failed, consumer_dropped) ==
    IF popped = <<>> THEN queue
    ELSE DecodeSamples(
             IF Head(popped) \in failed \/ consumer_dropped THEN queue
             ELSE queue \o decode(Head(popped).payload),
             Tail(popped), failed, consumer_dropped)

\* the task returns the first error of the decoder
decode_media_stream_StopOnDecodeError(read, packet, popped, dropped, failed) ==
    /\ sink.task = "running"
    /\ IF read = "packet"
       THEN /\ LET held == sink.sample_builder \cup {packet} IN
               /\ popped \in Distinct(held)
               /\ dropped \subseteq held \ {popped[i] : i \in DOMAIN popped}
               /\ failed \subseteq {popped[i] : i \in DOMAIN popped}
               /\ LET ok == {i \in DOMAIN popped :
                                \A j \in 1..i : popped[j] \notin failed}
                      queue == DecodeSamples(sink.samples,
                                   [i \in ok |-> popped[i]], {},
                                   sink.consumer_dropped)
                  IN  /\ Len(queue) <= MaxQueue
                      /\ sink' = [sink EXCEPT
                             !.sample_builder =
                                 (held \ dropped) \
                                     {popped[i] : i \in DOMAIN popped},
                             !.samples = queue,
                             !.task = IF failed = {} THEN @ ELSE "done",
                             !.last = [NoSinkStep EXCEPT
                                          !.op = "packet",
                                          !.before = sink.samples,
                                          !.popped = popped,
                                          !.failed = failed]]
       ELSE /\ popped = <<>> /\ dropped = {} /\ failed = {}
            /\ sink' = [sink EXCEPT
                   !.task = "done",
                   !.last = [NoSinkStep EXCEPT !.op = read,
                                               !.before = sink.samples]]
    /\ UNCHANGED <<ControllerVars, source, worker, net>>

\* one turn of the loop of decode_media_stream. read is what track.read
\* gives: a packet, bytes that are no RTP packet, or an error. The
\* SampleBuilder is code of webrtc-rs: of the packets it holds it returns the
\* samples popped, in that order, until it returns None, and it may give up
\* the packets dropped
decode_media_stream(read, packet, popped, dropped, failed) ==
    /\ sink.task = "running"
    /\ IF read = "packet"
       THEN /\ LET held == sink.sample_builder \cup {packet} IN
               /\ popped \in Distinct(held)
               /\ dropped \subseteq held \ {popped[i] : i \in DOMAIN popped}
               /\ failed \subseteq {popped[i] : i \in DOMAIN popped}
               /\ LET queue == DecodeSamples(sink.samples, popped, failed,
                                             sink.consumer_dropped)
                  IN  /\ Len(queue) <= MaxQueue
                      /\ sink' = [sink EXCEPT
                             !.sample_builder =
                                 (held \ dropped) \
                                     {popped[i] : i \in DOMAIN popped},
                             !.samples = queue,
                             !.last = [NoSinkStep EXCEPT
                                          !.op = "packet",
                                          !.before = sink.samples,
                                          !.popped = popped,
                                          !.failed = failed]]
       ELSE /\ popped = <<>> /\ dropped = {} /\ failed = {}
            /\ sink' = [sink EXCEPT
                   !.task = "done",
                   !.last = [NoSinkStep EXCEPT !.op = read,
                                               !.before = sink.samples]]
    /\ UNCHANGED <<ControllerVars, source, worker, net>>

\* for sample in data: consumer.try_recv() gives the next sample, or the slot
\* is set to 0 when the channel is empty or closed
RECURSIVE ForSlot(_, _)
ForSlot(st, i) ==
    IF i > Len(st.data) THEN st
    ELSE IF st.samples # <<>>
    THEN ForSlot([data |-> [st.data EXCEPT ![i] = Head(st.samples)],
                  samples |-> Tail(st.samples)], i + 1)
    ELSE ForSlot([data |-> [st.data EXCEPT ![i] = 0],
                  samples |-> st.samples], i + 1)

\* the callback leaves the slots it has no sample for as they are
output_data_fn_StopWhenEmpty(n) ==
    /\ sink.init
    /\ ~sink.consumer_dropped
    /\ sink' = [sink EXCEPT
           !.data = [i \in 1..n |-> IF i <= Len(sink.samples)
                                    THEN sink.samples[i] ELSE Stale],
           !.samples = SubSeq(@, n + 1, Len(@)),
           !.last = [NoSinkStep EXCEPT !.op = "output_data_fn",
                                       !.before = sink.samples,
                                       !.n = n]]
    /\ UNCHANGED <<ControllerVars, source, worker, net>>

\* the output callback of the device, with a slice of n slots to fill
output_data_fn(n) ==
    /\ sink.init
    /\ ~sink.consumer_dropped
    /\ LET r == ForSlot([data |-> [i \in 1..n |-> Stale],
                         samples |-> sink.samples], 1)
       IN  sink' = [sink EXCEPT
               !.data = r.data,
               !.samples = r.samples,
               !.last = [NoSinkStep EXCEPT !.op = "output_data_fn",
                                           !.before = sink.samples,
                                           !.n = n]]
    /\ UNCHANGED <<ControllerVars, source, worker, net>>

\* the SinkTrack is dropped: its stream, the callback and the consumer
drop_SinkTrack ==
    /\ sink.init
    /\ ~sink.consumer_dropped
    /\ sink' = [sink EXCEPT !.consumer_dropped = TRUE,
                            !.samples = <<>>,
                            !.last = [NoSinkStep EXCEPT !.op = "drop"]]
    /\ UNCHANGED <<ControllerVars, source, worker, net>>

NextSink ==
    \/ SinkTrack_init
    \/ \E packet \in RemotePacket :
       \E popped \in Distinct(sink.sample_builder \cup {packet}) :
       \E dropped \in SUBSET (sink.sample_builder \cup {packet}),
          failed \in SUBSET {popped[i] : i \in DOMAIN popped} :
           decode_media_stream("packet", packet, popped, dropped, failed)
    \/ \E read \in {"malformed", "error"}, packet \in RemotePacket :
           decode_media_stream(read, packet, <<>>, {}, {})
    \/ \E n \in OutLen : output_data_fn(n)
    \/ drop_SinkTrack

SpecSink == Init /\ [][NextSink]_vars

\* ---------------------------------------------------------------- MediaWorker
\* internal/media.rs: a worker that keeps the outgoing tracks by peer id,
\* changes them on the commands of its control channel and writes every
\* packet of its media channel to all of them

\* the most commands, and the most packets, sent and not yet received
MaxWorkerQueue == 2

\* the tracks an AddTrack command may carry
WorkerTrack == {1, 2}

\* the packets of the media device
WorkerPacket == {"p1", "p2"}

MediaWorkerCommands ==
    {[cmd |-> "AddTrack", peer |-> p, track |-> t] :
        p \in PeerId, t \in WorkerTrack}
    \cup {[cmd |-> "RemoveTrack", peer |-> p, track |-> 0] : p \in PeerId}
    \cup {[cmd |-> "Terminate", peer |-> "", track |-> 0]}

\* the owner of control_tx sends a command
control_send(cmd) ==
    /\ ~worker.control_closed
    /\ Len(worker.control_rx) < MaxWorkerQueue
    /\ worker' = [worker EXCEPT !.control_rx = send(@, <<cmd>>)]
    /\ UNCHANGED <<ControllerVars, source, sink, net>>

\* the media device sends a packet
media_send(packet) ==
    /\ ~worker.media_closed
    /\ Len(worker.media_rx) < MaxWorkerQueue
    /\ worker' = [worker EXCEPT !.media_rx = send(@, <<packet>>)]
    /\ UNCHANGED <<ControllerVars, source, sink, net>>

\* the sender of the control channel is dropped
control_close ==
    /\ ~worker.control_closed
    /\ worker' = [worker EXCEPT !.control_closed = TRUE]
    /\ UNCHANGED <<ControllerVars, source, sink, net>>

\* the sender of the media channel is dropped
media_close ==
    /\ ~worker.media_closed
    /\ worker' = [worker EXCEPT !.media_closed = TRUE]
    /\ UNCHANGED <<ControllerVars, source, sink, net>>

\* MediaWorker::run, the branch of select! for control_rx.recv()
run_control ==
    /\ worker.running
    /\ IF worker.control_rx # <<>>
       THEN LET cmd == Head(worker.control_rx) IN
            worker' = [worker EXCEPT
                !.control_rx = Tail(@),
                !.outgoing_media_tracks =
                    IF cmd.cmd = "AddTrack" THEN Insert(@, cmd.peer, cmd.track)
                    ELSE IF cmd.cmd = "RemoveTrack" THEN Remove(@, cmd.peer)
                    ELSE @,
                !.running = cmd.cmd # "Terminate",
                !.last = [NoWorkerStep EXCEPT !.op = cmd.cmd,
                                              !.peer = cmd.peer,
                                              !.track = cmd.track]]
       ELSE /\ worker.control_closed
            /\ worker' = [worker EXCEPT
                   !.running = FALSE,
                   !.last = [NoWorkerStep EXCEPT !.op = "control closed"]]
    /\ UNCHANGED <<ControllerVars, source, sink, net>>

\* the worker returns the first error of write_rtp
run_media_StopOnError(order, write_fail) ==
    /\ worker.running
    /\ IF worker.media_rx # <<>>
       THEN /\ order \in Orders(Keys(worker.outgoing_media_tracks))
            /\ write_fail \subseteq Keys(worker.outgoing_media_tracks)
            /\ LET ok == {i \in DOMAIN order :
                             \A j \in 1..(i - 1) : order[j] \notin write_fail}
               IN
               worker' = [worker EXCEPT
                   !.media_rx = Tail(@),
                   !.running = write_fail = {},
                   !.last = [NoWorkerStep EXCEPT
                       !.op = "packet",
                       !.packet = Head(worker.media_rx),
                       !.writes = [i \in ok |->
                           [peer |-> order[i],
                            track |-> worker.outgoing_media_tracks[order[i]],
                            ok |-> order[i] \notin write_fail]]]]
       ELSE /\ worker.media_closed
            /\ order = <<>> /\ write_fail = {}
            /\ worker' = [worker EXCEPT
                   !.running = FALSE,
                   !.last = [NoWorkerStep EXCEPT !.op = "media closed"]]
    /\ UNCHANGED <<ControllerVars, source, sink, net>>

\* MediaWorker::run, the branch of select! for media_rx.recv(): the packet
\* is written to the tracks in the order the map gives them; write_fail: the
\* peers whose write_rtp fails
run_media(order, write_fail) ==
    /\ worker.running
    /\ IF worker.media_rx # <<>>
       THEN /\ order \in Orders(Keys(worker.outgoing_media_tracks))
            /\ write_fail \subseteq Keys(worker.outgoing_media_tracks)
            /\ worker' = [worker EXCEPT
                   !.media_rx = Tail(@),
                   !.last = [NoWorkerStep EXCEPT
                       !.op = "packet",
                       !.packet = Head(worker.media_rx),
                       !.writes = [i \in DOMAIN order |->
                           [peer |-> order[i],
                            track |-> worker.outgoing_media_tracks[order[i]],
                            ok |-> order[i] \notin write_fail]]]]
       ELSE /\ worker.media_closed
            /\ order = <<>> /\ write_fail = {}
            /\ worker' = [worker EXCEPT
                   !.running = FALSE,
                   !.last = [NoWorkerStep EXCEPT !.op = "media closed"]]
    /\ UNCHANGED <<ControllerVars, source, sink, net>>

NextWorker ==
    \/ \E cmd \in MediaWorkerCommands : control_send(cmd)
    \/ \E packet \in WorkerPacket : media_send(packet)
    \/ control_close
    \/ media_close
    \/ run_control
    \/ \E order \in Orders(Keys(worker.outgoing_media_tracks)) :
       \E write_fail \in SUBSET Keys(worker.outgoing_media_tracks) :
           run_media(order, write_fail)
    \/ run_media(<<>>, {})

SpecWorker == Init /\ [][NextWorker]_vars

\* ---------------------------------------------------------------- handshake
\* two endpoints, each with a Controller and the handlers of the example, and
\* a signaling server that delivers what handle_events sends, in order, to
\* the handle_signals of the destination.  Every transport call succeeds.
\* Of a Peer the endpoint keeps its state and the descriptions set on its
\* connection.  ICE candidates are left out: recv_ice sets no description
\* and the channels they travel on are unbounded

\* the most calls to dial an endpoint makes
MaxDials == 2

\* the Peer stored by connect, on a new connection
EpNewPeer ==
    [state |-> "WaitingForSdp", local |-> NoSdp, remote |-> NoSdp]

\* dial(r) on endpoint e
EpDial(e, r) ==
    LET local_sdp == [kind |-> "offer", conn |-> e] IN
    /\ e # r
    /\ net[e].dials < MaxDials
    /\ net' = [net EXCEPT
           ![e].peers = Insert(@, r, [EpNewPeer EXCEPT !.local = local_sdp]),
           ![e].events = send(@, <<Event("CallInitiated", r, local_sdp)>>),
           ![e].dials = @ + 1]
    /\ UNCHANGED <<ControllerVars, source, sink, worker>>

\* accept_call that sends no Sdp event
EpAcceptCall_NoSdp(ep, e, src, remote_sdp) ==
    LET answer == [kind |-> "answer", conn |-> e] IN
    [ep EXCEPT
        !.peers = Insert(@, src, [EpNewPeer EXCEPT !.state = "WaitingForIce",
                                                   !.local = answer,
                                                   !.remote = remote_sdp])]

\* accept_call(src, remote_sdp) on endpoint e, whose state is ep
EpAcceptCall(ep, e, src, remote_sdp) ==
    LET answer == [kind |-> "answer", conn |-> e] IN
    [ep EXCEPT
        !.peers = Insert(@, src, [EpNewPeer EXCEPT !.state = "WaitingForIce",
                                                   !.local = answer,
                                                   !.remote = remote_sdp]),
        !.events = send(@, <<Event("Sdp", src, answer)>>)]

\* recv_sdp(src, sdp): peer not found is an error the handler logs
EpRecvSdp(ep, src, sdp) ==
    IF src \in Keys(ep.peers)
    THEN [ep EXCEPT !.peers[src].remote = sdp]
    ELSE ep

\* handle_events of endpoint e receives an event and sends the signal for it
\* to the destination, where the server puts it on server_signal_rx
EpHandleEvents(e) ==
    /\ net[e].events # <<>>
    /\ LET evt == Head(net[e].events)
           sig == [type |-> evt.type, src |-> e, sdp |-> evt.sdp]
       IN net' = [r \in PeerId |->
                    LET ep == IF r = e
                              THEN [net[r] EXCEPT !.events = Tail(@)]
                              ELSE net[r]
                    IN IF r = evt.peer
                       THEN [ep EXCEPT !.signals = send(@, <<sig>>)]
                       ELSE ep]
    /\ UNCHANGED <<ControllerVars, source, sink, worker>>

\* handle_signals of endpoint e receives a signal and makes the call for it
EpHandleSignals(e) ==
    /\ net[e].signals # <<>>
    /\ LET sig == Head(net[e].signals)
           ep == [net[e] EXCEPT !.signals = Tail(@)]
       IN net' = [net EXCEPT ![e] =
                    IF sig.type = "CallInitiated"
                    THEN EpAcceptCall(ep, e, sig.src, sig.sdp)
                    ELSE EpRecvSdp(ep, sig.src, sig.sdp)]
    /\ UNCHANGED <<ControllerVars, source, sink, worker>>

NextHandshake ==
    \/ \E e \in PeerId, r \in PeerId : EpDial(e, r)
    \/ \E e \in PeerId : EpHandleEvents(e)
    \/ \E e \in PeerId : EpHandleSignals(e)

\* the handlers are tasks of the runtime: one that has something to receive
\* is run
SpecHandshake ==
    /\ Init
    /\ [][NextHandshake]_vars
    /\ \A e \in PeerId : WF_vars(EpHandleEvents(e))
    /\ \A e \in PeerId : WF_vars(EpHandleSignals(e))

\* ---------------------------------------------------------------- claims
\* every call of one batch of the last Controller call
LastCalls == UNION {last.calls[i] : i \in 1..Len(last.calls)}

\* C1: after add_media_source (distinct ids), dial and accept_call in any
\* order, all transport calls succeeding, every stored Peer has exactly one
\* sender per registered source: the keys of its rtp_senders are the keys of
\* media_sources, and its connection carries exactly these senders
C1_OneSenderPerSource ==
    \A p \in Keys(peers) :
        /\ Keys(peers[p].rtp_senders) = Keys(media_sources)
        /\ transports[peers[p].connection].senders =
               {<<s, media_sources[s]>> : s \in Keys(media_sources)}

\* two peers and two sources, the last source added after both peers
C1_Witness ==
    /\ Keys(peers) = PeerId
    /\ Keys(media_sources) = MediaSourceId
    /\ last.op = "add_media_source"
    /\ \A p \in PeerId : Keys(peers[p].rtp_senders) = MediaSourceId

\* C2: in every reachable state every key of every Peer's rtp_senders is the
\* id of a source registered in media_sources
C2_SendersAreRegistered ==
    \A p \in Keys(peers) : Keys(peers[p].rtp_senders) \subseteq Keys(media_sources)

\* a source was removed, a remove_track failed, and a Peer still has a sender
C2_Witness ==
    /\ last.op = "remove_media_source"
    /\ \E c \in LastCalls : ~c.ok
    /\ \E p \in Keys(peers) : Keys(peers[p].rtp_senders) # {}

\* C3: after remove_media_source(S) returned, S is in neither media_sources
\* nor the rtp_senders of any Peer, also when remove_track failed
C3_RemovedEverywhere ==
    last.op = "remove_media_source" =>
        /\ last.arg \notin Keys(media_sources)
        /\ \A p \in Keys(peers) : last.arg \notin Keys(peers[p].rtp_senders)

\* a registered source was removed with two Peers stored, remove_track
\* failing for one of them and succeeding for the other
C3_Witness ==
    /\ last.op = "remove_media_source"
    /\ last.existed
    /\ \E c, d \in LastCalls : ~c.ok /\ d.ok
    /\ Keys(peers) = PeerId

\* C4: a Peer P is in the store iff a transport created for P exists, and
\* the transports that exist are exactly the connections of the stored Peers
C4_PeerIffLiveTransport ==
    /\ \A p \in PeerId : p \in Keys(peers) <=> LiveFor(p)
    /\ leaked = EmptyBag
    /\ {c \in PeerId : transports[c] # Free} =
           {peers[p].connection : p \in Keys(peers)}

\* C5: when dial or accept_call returns an error, no Peer for that id is in
\* the store
C5_FailedCallLeavesNoPeer ==
    (last.op \in {"dial", "accept_call"} /\ last.result # "Ok") =>
        last.arg \notin Keys(peers)

\* C6: dial(P) with a Peer P in the store fails with PeerAlreadyExists and
\* leaves the stored Peer and its transport as they were
C6_DialExistingRejected ==
    [][\A p \in PeerId :
          (last = Idle /\ last'.op = "dial" /\ last'.arg = p /\ p \in Keys(peers))
          => /\ last'.result = "PeerAlreadyExists"
             /\ peers' = peers
             /\ transports' = transports
             /\ leaked' = leaked]_vars

\* C7: add_media_source(S) with S registered fails with DuplicateSourceId
\* and leaves media_sources and the senders of every Peer as they were
C7_DuplicateSourceRejected ==
    [][\A s \in MediaSourceId :
          (last = Idle /\ last'.op = "add_media_source" /\ last'.arg = s
             /\ s \in Keys(media_sources))
          => /\ last'.result = "DuplicateSourceId"
             /\ media_sources' = media_sources
             /\ peers' = peers
             /\ transports' = transports]_vars

\* the last call was recv_ice or recv_sdp and made exactly one transport
\* call: it handed its candidate or description to the connection of the
\* Peer it named
Forwarded ==
    /\ Len(last.calls) = 1
    /\ \E ok \in BOOLEAN :
         last.calls[1] =
           {Call(peers[last.arg].connection,
                 IF last.op = "recv_ice" THEN "add_ice_candidate"
                                         ELSE "set_remote_description",
                 NoTrack, last.sdp,
                 IF last.op = "recv_ice" THEN "candidate:" \o last.cand ELSE "",
                 ok)}

NotFound == last.result = "peer not found" /\ last.calls = <<>>

\* C8 as stated: recv_ice and recv_sdp return peer-not-found without a
\* transport call when P is not stored, and forward to P's transport, and to
\* no other, whenever P is stored
C8_Original ==
    last.op \in {"recv_ice", "recv_sdp"} =>
        IF last.arg \in Keys(peers) THEN Forwarded ELSE NotFound

\* C8 amended: as C8, except that recv_ice for a stored P returns the error
\* of candidate.to_json() without a transport call when that conversion fails
C8_RecvRouting ==
    last.op \in {"recv_ice", "recv_sdp"} =>
        IF last.arg \notin Keys(peers) THEN NotFound
        ELSE IF last.result = "to_json failed"
             THEN last.op = "recv_ice" /\ last.calls = <<>>
             ELSE Forwarded

\* a description was forwarded while two Peers are stored
C8_Witness ==
    /\ last.op = "recv_sdp"
    /\ last.result = "Ok"
    /\ Keys(peers) = PeerId

\* C9: a successful dial(B) with no Peer B stored sends exactly one event,
\* CallInitiated{dest: B, sdp} with the offer set as local description, and
\* leaves a Peer B in state WaitingForSdp
C9_DialEmitsCallInitiated ==
    (last.op = "dial" /\ last.result = "Ok" /\ ~last.existed) =>
        /\ last.emitted = <<Event("CallInitiated", last.arg,
                                  [kind |-> "offer", conn |-> last.arg])>>
        /\ \E c \in LastCalls : /\ c.call = "set_local_description"
                                /\ c.ok
                                /\ c.sdp = last.emitted[1].sdp
        /\ last.arg \in Keys(peers)
        /\ peers[last.arg].state = "WaitingForSdp"

\* dial succeeded for a peer id that was not stored, another Peer stored
C9_Witness ==
    /\ last.op = "dial"
    /\ last.result = "Ok"
    /\ ~last.existed
    /\ Keys(peers) = PeerId

\* the batches of the last call that ask for the local description
CreateIdx ==
    {i \in 1..Len(last.calls) :
        \E c \in last.calls[i] : c.call \in {"create_offer", "create_answer"}}

\* add_track for the track of source s was called on the new connection in
\* a batch before batch i
AddTrackBefore(i, s) ==
    {c \in UNION {last.calls[j] : j \in 1..(i - 1)} :
        /\ c.call = "add_track"
        /\ c.conn = peers[last.arg].connection
        /\ c.track = <<s, media_sources[s]>>}

\* C10 as stated: in dial and accept_call every registered source is
\* attached to the new transport before the description is created
C10_Original ==
    last.op \in {"dial", "accept_call"} =>
        \A i \in CreateIdx : \A s \in Keys(media_sources) :
            /\ \E c \in AddTrackBefore(i, s) : c.ok
            /\ <<s, media_sources[s]>> \in
                   transports[peers[last.arg].connection].senders

\* C10 amended: add_track is called for every registered source on the new
\* transport before the description is created, and the sources whose
\* add_track succeeded are the ones attached
C10_AttachBeforeDescription ==
    last.op \in {"dial", "accept_call"} =>
        \A i \in CreateIdx : \A s \in Keys(media_sources) :
            /\ AddTrackBefore(i, s) # {}
            /\ \A c \in AddTrackBefore(i, s) :
                 c.ok <=> <<s, media_sources[s]>> \in
                              transports[peers[last.arg].connection].senders

\* dial succeeded with two sources registered, add_track failing for one
C10_Witness ==
    /\ last.op = "dial"
    /\ last.result = "Ok"
    /\ Keys(media_sources) = MediaSourceId
    /\ \E c, d \in LastCalls :
         c.call = "add_track" /\ ~c.ok /\ d.call = "add_track" /\ d.ok

\* C11: a successful accept_call(P, remote_sdp) sets the remote description
\* on P's transport before it creates the answer, leaves Peer P in state
\* WaitingForIce and sends exactly one event, Sdp{dest: P, sdp} with the
\* answer set as local description
C11_AcceptEmitsSdp ==
    (last.op = "accept_call" /\ last.result = "Ok") =>
        /\ last.arg \in Keys(peers)
        /\ peers[last.arg].state = "WaitingForIce"
        /\ \E i, j \in 1..Len(last.calls) :
             /\ i < j
             /\ Call(peers[last.arg].connection, "set_remote_description",
                     NoTrack, last.sdp, "", TRUE) \in last.calls[i]
             /\ Call(peers[last.arg].connection, "create_answer", NoTrack,
                     NoSdp, "", TRUE) \in last.calls[j]
        /\ last.emitted = <<Event("Sdp", last.arg,
                                  [kind |-> "answer", conn |-> last.arg])>>
        /\ \E c \in LastCalls : /\ c.call = "set_local_description"
                                /\ c.ok
                                /\ c.sdp = last.emitted[1].sdp

\* accept_call succeeded for a stored peer id with a source registered
C11_Witness ==
    /\ last.op = "accept_call"
    /\ last.result = "Ok"
    /\ last.existed
    /\ Keys(peers[last.arg].rtp_senders) # {}

\* C12: hang_up(P) with no Peer P in the store returns without an error and
\* leaves the Peers, their transports and media_sources as they were
C12_HangUpUnknown ==
    [][(last = Idle /\ last'.op = "hang_up" /\ last'.arg \notin Keys(peers))
       => /\ last'.result = "Ok"
          /\ last'.calls = <<>>
          /\ peers' = peers
          /\ media_sources' = media_sources
          /\ transports' = transports
          /\ leaked' = leaked]_vars

\* hang_up for a peer id that is not stored, while a Peer with a sender is
C12_Witness ==
    /\ last.op = "hang_up"
    /\ ~last.existed
    /\ \E p \in Keys(peers) : Keys(peers[p].rtp_senders) # {}
    /\ Keys(media_sources) # {}

\* the remove_track calls of a set of calls, as <<connection, track>>
RemoveTrackCalls(calls) ==
    {<<c.conn, c.track>> :
        c \in {d \in UNION {calls[i] : i \in 1..Len(calls)} :
                 d.call = "remove_track"}}

\* the senders stored for Peer p, as <<connection, track>>
StoredSenders(p) ==
    {<<peers[p].connection, <<s, peers[p].rtp_senders[s]>>>> :
        s \in Keys(peers[p].rtp_senders)}

\* C13: hang_up(P) with a Peer P in the store calls remove_track for every
\* sender in P's rtp_senders and removes P from the store, whatever the
\* results of the remove_track calls, and reports no error
C13_HangUpStored ==
    [][\A p \in PeerId :
          (last = Idle /\ last'.op = "hang_up" /\ last'.arg = p
             /\ p \in Keys(peers))
          => /\ last'.result = "Ok"
             /\ RemoveTrackCalls(last'.calls) = StoredSenders(p)
             /\ p \notin Keys(peers')
             /\ \A q \in Keys(peers) \ {p} :
                  q \in Keys(peers') /\ peers'[q] = peers[q]]_vars

\* hang_up of a Peer with two senders, one remove_track failing
C13_Witness ==
    /\ last.op = "hang_up"
    /\ last.existed
    /\ \E c, d \in LastCalls : ~c.ok /\ d.ok
    /\ last.arg \notin Keys(peers)

\* C14: when deinit returns the store is empty, every Peer that was stored
\* has been hung up (remove_track called for each of its senders), the result
\* is Ok and media_sources is as it was; with an empty store nothing changes
C14_DeinitEmptiesStore ==
    [][(last = Idle /\ last'.op = "deinit")
       => /\ last'.result = "Ok"
          /\ peers' = EmptyMap
          /\ media_sources' = media_sources
          /\ RemoveTrackCalls(last'.calls) =
                 UNION {StoredSenders(p) : p \in Keys(peers)}
          /\ \A c \in PeerId : transports'[c] = Free
          /\ (peers = EmptyMap =>
                /\ last'.calls = <<>>
                /\ transports' = transports
                /\ leaked' = leaked
                /\ chan' = chan)]_vars

\* deinit with two Peers stored, remove_track called on both connections and
\* failing on one of them
C14_Witness ==
    /\ last.op = "deinit"
    /\ \E c, d \in LastCalls : c.conn # d.conn /\ ~c.ok /\ d.ok
    /\ peers = EmptyMap

\* the senders of source o attached to connection c in transports ts
SendersOf(ts, c, o) == {x \in ts[c].senders : x[1] = o}

\* C15: remove_media_source(S) returns Ok; when S is not registered (a
\* second call, or an id never added) it leaves the state as it is; and it
\* never changes the registry entry or the senders of another source
C15_RemoveIdempotent ==
    [][\A s \in MediaSourceId :
          (last = Idle /\ last'.op = "remove_media_source" /\ last'.arg = s)
          => /\ last'.result = "Ok"
             /\ s \notin Keys(media_sources')
             /\ (s \notin Keys(media_sources) =>
                   /\ peers' = peers
                   /\ media_sources' = media_sources
                   /\ transports' = transports
                   /\ leaked' = leaked
                   /\ last'.calls = <<>>)
             /\ Keys(peers') = Keys(peers)
             /\ \A o \in MediaSourceId \ {s} :
                  /\ o \in Keys(media_sources') <=> o \in Keys(media_sources)
                  /\ o \in Keys(media_sources) =>
                         media_sources'[o] = media_sources[o]
                  /\ \A p \in Keys(peers) :
                       /\ o \in Keys(peers'[p].rtp_senders) <=>
                              o \in Keys(peers[p].rtp_senders)
                       /\ o \in Keys(peers[p].rtp_senders) =>
                              peers'[p].rtp_senders[o] = peers[p].rtp_senders[o]
                  /\ \A c \in PeerId :
                       SendersOf(transports', c, o) = SendersOf(transports, c, o)
            ]_vars

\* remove_media_source for a source that is not registered, while a Peer has
\* a sender of the other source
C15_Witness ==
    /\ last.op = "remove_media_source"
    /\ ~last.existed
    /\ \E p \in Keys(peers) : Keys(peers[p].rtp_senders) # {}

\* C16: add_media_source(S) calls add_track on the connection of every Peer;
\* a failing add_track does not end the loop: every Peer whose add_track
\* succeeded has the sender of S, S is registered and the call returns Ok
C16_FanOutContinues ==
    last.op = "add_media_source" =>
        /\ last.result = "Ok"
        /\ last.arg \in Keys(media_sources)
        /\ \A p \in Keys(peers) :
             \E c \in LastCalls :
                /\ c.call = "add_track"
                /\ c.conn = peers[p].connection
                /\ c.track = <<last.arg, media_sources[last.arg]>>
                /\ c.ok =>
                     /\ last.arg \in Keys(peers[p].rtp_senders)
                     /\ peers[p].rtp_senders[last.arg] = media_sources[last.arg]
                     /\ c.track \in transports[c.conn].senders

\* add_media_source with two Peers, add_track failing for one of them
C16_Witness ==
    /\ last.op = "add_media_source"
    /\ Keys(peers) = PeerId
    /\ \E c, d \in LastCalls : ~c.ok /\ d.ok

\* C17: when the connection of a stored Peer P reports the state Failed, the
\* Controller removes P from the store
C17_FailedPeerRemoved ==
    [][\A p \in PeerId :
          (last = Idle /\ last'.op = "on_ice_connection_state_change"
             /\ last'.connection_state = "Failed" /\ last'.arg = p
             /\ p \in Keys(peers) /\ leaked = EmptyBag)
          => p \notin Keys(peers')]_vars

\* the task is inside a Controller call: between its start and its return
InCall(t) == task[t].pc = "call"

\* C18: no two tasks of the application are inside a Controller call at the
\* same time, and the task inside a call holds the Mutex
C18_CallsMutuallyExclusive ==
    /\ \A t, u \in Task : (InCall(t) /\ InCall(u)) => t = u
    /\ \A t \in Task : InCall(t) => mutex = t

\* handle_events is inside hang_up while handle_signals waits with a
\* recv_ice for the same peer and handle_swrtc waits too
C18_Witness ==
    /\ InCall("handle_events")
    /\ task["handle_events"].op = "hang_up"
    /\ task["handle_signals"] =
           [pc |-> "lock", op |-> "recv_ice", arg |-> task["handle_events"].arg]
    /\ task["handle_swrtc"].pc = "lock"

\* the event a successful call sends
SignalType == [dial |-> "CallInitiated", accept_call |-> "Sdp"]

\* the CallInitiated and Sdp events for peer p in the channel, in order
Signals(p) ==
    SelectSeq(chan, LAMBDA e : e.peer = p /\ e.type \in {"CallInitiated", "Sdp"})

\* the calls for peer p whose event is in the channel, in the order in which
\* they returned
CompletedFor(p) == SelectSeq(done, LAMBDA d : d.peer = p)

\* C19: for each peer P the CallInitiated{dest: P} and Sdp{dest: P} events
\* are in the channel in the order in which the dial and accept_call calls
\* for P that sent them returned
C19_SignalsInCompletionOrder ==
    \A p \in PeerId :
        /\ Len(Signals(p)) = Len(CompletedFor(p))
        /\ \A i \in 1..Len(Signals(p)) :
             Signals(p)[i].type = SignalType[CompletedFor(p)[i].op]

\* the events of a dial and of an accept_call for one peer are in the channel
C19_Witness ==
    \E p \in PeerId :
        /\ Len(Signals(p)) = 2
        /\ Signals(p)[1].type # Signals(p)[2].type

\* the last step sent, or tried to send, a Disconnected event for peer p
SendsDisconnected(p) ==
    \/ last.emitted = <<Event("Disconnected", p, NoSdp)>>
    \/ rx_closed /\ last.result = "send failed" /\ last.emitted = <<>>

\* C20: on_ice_connection_state_change sends one Disconnected{peer: P} when
\* the state reported is Failed and nothing for any other state; no other
\* step (hang_up in particular) sends a Disconnected event
C20_DisconnectedOnFailedOnly ==
    /\ last.op = "on_ice_connection_state_change" =>
         IF last.connection_state = "Failed"
         THEN SendsDisconnected(last.arg)
         ELSE last.emitted = <<>> /\ last.result = "Ok"
    /\ last.op # "on_ice_connection_state_change" =>
         \A i \in 1..Len(last.emitted) : last.emitted[i].type # "Disconnected"
    /\ last.op = "hang_up" => last.emitted = <<>>

\* a stored Peer's connection reported Failed and the event was sent
C20_Witness ==
    /\ last.op = "on_ice_connection_state_change"
    /\ last.connection_state = "Failed"
    /\ last.existed
    /\ last.emitted # <<>>

\* C21: the tasks that read the RTCP packets of the senders end when their
\* source is removed or their Peer is hung up: when deinit has returned no
\* such task is running
C21_NoReaderAfterDeinit ==
    last.op = "deinit" => ~RtcpReaderRunning

\* the samples of the k-th frame of the captured stream
FrameOf(k) ==
    encode([i \in 1..frame_size |-> Sample((k - 1) * frame_size + i)])

\* C22: with a compressor that always succeeds, n samples given to the framer
\* one at a time yield n \div frame_size frames, the k-th made of the k-th
\* frame_size samples and returned by the call that gives the framer its last
\* sample; a frame that was packetized gave at least one packet
C22_FramesPerSamples ==
    /\ Len(source.frames) = source.captured \div frame_size
    /\ Len(source.raw_samples) = source.captured % frame_size
    /\ \A k \in 1..Len(source.frames) :
           /\ source.frames[k].at = k * frame_size
           /\ source.frames[k].bytes = FrameOf(k)
    /\ source.last.op = "packetize" /\ source.last.ok
           => Len(source.last.packets) >= 1

C22_Witness ==
    /\ source.captured = 2 * frame_size
    /\ Len(source.frames) = 2
    /\ Len(source.packets) >= 1

\* C23: when the compressor fails on a full frame the framer discards the
\* samples of that frame: after a call it never holds a full frame
C23_FailedFrameDiscarded ==
    Len(source.raw_samples) < frame_size

\* C24: the packets made for one SourceTrack carry its ssrc, each sequence
\* number is the one before plus one modulo 2^16 and each timestamp is the
\* one before plus frame_size, wrapping at 2^32
C24_PacketNumbering ==
    /\ \A i \in 1..Len(source.packets) :
           source.packets[i].ssrc = source.packetizer.ssrc
    /\ \A i \in 2..Len(source.packets) :
           /\ source.packets[i].sequence_number =
                  (source.packets[i - 1].sequence_number + 1) % u16
           /\ source.packets[i].timestamp =
                  wrapping_add(source.packets[i - 1].timestamp, frame_size)

C24_Witness ==
    /\ Len(source.packets) = 3
    /\ source.packets[3].sequence_number < source.packets[2].sequence_number
    /\ source.packets[3].timestamp.hi < source.packets[2].timestamp.hi

\* C25: a frame that cannot be packetized gives no packet to the track, a
\* packet that cannot be written is given up, and in both cases the task goes
\* on with the next frame
C25_PacketizerTaskContinues ==
    source.last.op = "packetize" =>
        /\ source.task = "running"
        /\ ~source.last.ok => source.last.written = <<>>
        /\ Len(source.last.written) <= Len(source.last.packets)

C25_Witness ==
    /\ source.last.op = "packetize"
    /\ source.last.ok
    /\ source.last.written # <<>>
    /\ Len(source.frames) = 3
    /\ source.chan = <<>>
    /\ Len(source.packets) = 2
    /\ Len(source.track) = 1

\* C28: bytes of the track that are no RTP packet are dropped and the task
\* that reads the track goes on with the next packet
C28_MalformedPacketSkipped ==
    sink.last.op = "malformed" => sink.task = "running"

\* the decoded samples of the frames of q that are not in failed
RECURSIVE Decoded(_, _)
Decoded(q, failed) ==
    IF q = <<>> THEN <<>>
    ELSE (IF Head(q) \in failed THEN <<>> ELSE decode(Head(q).payload))
             \o Decoded(Tail(q), failed)

\* C29: when the decoder fails on a frame no sample of that frame reaches the
\* playback queue, and every other frame the builder returned for the packet
\* is decoded and sent, in order; the task goes on
C29_DecodeFailureSkipsFrame ==
    sink.last.op = "packet" /\ ~sink.consumer_dropped =>
        /\ sink.samples = sink.last.before \o
                              Decoded(sink.last.popped, sink.last.failed)
        /\ \A i \in DOMAIN sink.last.popped :
               sink.last.popped[i] \notin sink.sample_builder
        /\ sink.task = "running"

C29_Witness ==
    /\ sink.last.op = "packet"
    /\ ~sink.consumer_dropped
    /\ Len(sink.last.popped) = 2
    /\ sink.last.failed = {sink.last.popped[1]}
    /\ sink.samples = sink.last.before \o decode(sink.last.popped[2].payload)

\* C30: the output callback writes every slot of its slice: the samples of
\* the queue in the order they were sent, each taken from the queue, then 0
\* for the slots the queue has no sample for
C30_OutputNeverWaits ==
    sink.last.op = "output_data_fn" =>
        LET before == sink.last.before
            k == IF Len(before) < sink.last.n THEN Len(before) ELSE sink.last.n
        IN  /\ Len(sink.data) = sink.last.n
            /\ \A i \in 1..k : sink.data[i] = before[i]
            /\ \A i \in (k + 1)..sink.last.n : sink.data[i] = 0
            /\ sink.samples = SubSeq(before, k + 1, Len(before))

C30_Witness ==
    /\ sink.last.op = "output_data_fn"
    /\ sink.task = "done"
    /\ Len(sink.data) = 3
    /\ sink.data[1] # 0
    /\ sink.data[2] # 0
    /\ sink.data[3] = 0

\* C31: the queues between the audio callbacks and the tasks are bounded:
\* the decoded samples waiting for the output callback stay below the most
\* the decoding task is ever given room to send
C31_QueuesBounded ==
    Len(sink.samples) < MaxQueue

\* C36: after every call of OpusFramer::frame, whatever the compressor
\* returned, the framer buffers at most frame_size - 1 samples
C36_BufferBelowFrame ==
    source.init => Len(source.raw_samples) <= frame_size - 1

\* C37: every stored Peer is in state WaitingForSdp or WaitingForIce, and a
\* stored Peer leaves WaitingForSdp only when accept_call for its id replaces
\* it (WaitingForIce: when dial or accept_call for its id replaces it): no
\* other call and no callback changes the state of a Peer
C37_PeerStates ==
    [][/\ \A p \in Keys(peers') :
              peers'[p].state \in {"WaitingForSdp", "WaitingForIce"}
       /\ last'.op = "dial" /\ last'.result = "Ok" /\ last = Idle
              => peers'[last'.arg].state = "WaitingForSdp"
       /\ \A p \in Keys(peers) \cap Keys(peers') :
              peers'[p].state # peers[p].state
                  => /\ last'.op = IF peers[p].state = "WaitingForSdp"
                                   THEN "accept_call"
                                   ELSE last'.op
                     /\ last'.op \in {"dial", "accept_call"}
                     /\ last'.arg = p]_vars

C37_Witness ==
    /\ last.op = "recv_sdp"
    /\ last.result = "Ok"
    /\ peers[last.arg].state = "WaitingForSdp"

\* C38: recv_ice and recv_sdp, whatever they return, leave the Peers, the
\* media sources and the events of the channel as they were
C38_RecvChangesNothing ==
    [][last = Idle /\ last'.op \in {"recv_ice", "recv_sdp"}
           => /\ peers' = peers
              /\ media_sources' = media_sources
              /\ chan' = chan]_vars

C38_Witness ==
    /\ last.op = "recv_ice"
    /\ last.result = "add_ice_candidate failed"
    /\ Keys(peers[last.arg].rtp_senders) # {}

\* C33: while no remove_track has failed, the senders attached to the
\* connection of a stored Peer are the senders of its rtp_senders map
C33_AttachedAreStored ==
    \A p \in Keys(peers) :
        transports[peers[p].connection].senders =
            {<<s, peers[p].rtp_senders[s]>> : s \in Keys(peers[p].rtp_senders)}

\* C34: an Ice, Disconnected or TrackAdded event for peer id P comes from the
\* connection stored for P: once hang_up has removed P no callback sends an
\* event for P
C34_EventsFromStoredPeer ==
    last.op \in Callbacks /\ last.emitted # <<>> => last.arg \in Keys(peers)

\* C35: no Ice event of the connection made by dial(P) or accept_call(P) is
\* in the event channel before the CallInitiated or Sdp event of that call
C35_SignalBeforeIce ==
    \A i, j \in DOMAIN chan :
        i < j /\ chan[i].type = "Ice" /\ chan[j].type \in {"CallInitiated", "Sdp"}
            => chan[i].peer # chan[j].peer

\* C39: MediaWorker::run writes every packet once to each track that is
\* registered when the packet is received, whether or not a write fails, an
\* AddTrack registers its track for its peer and a RemoveTrack removes the
\* track of its peer, and the worker returns only on Terminate or when the
\* control or the media channel is closed
C39_WorkerForwardsToAll ==
    /\ worker.last.op = "packet" =>
           /\ Len(worker.last.writes) =
                  Cardinality(Keys(worker.outgoing_media_tracks))
           /\ \A p \in Keys(worker.outgoing_media_tracks) :
                  \E i \in DOMAIN worker.last.writes :
                      /\ worker.last.writes[i].peer = p
                      /\ worker.last.writes[i].track =
                             worker.outgoing_media_tracks[p]
    /\ worker.last.op = "AddTrack" =>
           /\ worker.last.peer \in Keys(worker.outgoing_media_tracks)
           /\ worker.outgoing_media_tracks[worker.last.peer] =
                  worker.last.track
    /\ worker.last.op = "RemoveTrack" =>
           worker.last.peer \notin Keys(worker.outgoing_media_tracks)
    /\ ~worker.running =>
           worker.last.op \in {"Terminate", "control closed", "media closed"}

C39_Witness ==
    /\ worker.last.op = "packet"
    /\ worker.running
    /\ Len(worker.last.writes) = 2
    /\ ~worker.last.writes[1].ok
    /\ worker.last.writes[2].ok

\* endpoint e holds a Peer for r and r holds one for e, and each of the two
\* connections has its local and its remote description
Handshaken(e, r) ==
    /\ r \in Keys(net[e].peers)
    /\ e \in Keys(net[r].peers)
    /\ net[e].peers[r].local # NoSdp
    /\ net[e].peers[r].remote # NoSdp
    /\ net[r].peers[e].local # NoSdp
    /\ net[r].peers[e].remote # NoSdp

\* C32: with the relay of the example and no failing transport call, once an
\* endpoint holds a Peer for the other (it has called dial), eventually each
\* of the two holds a Peer for the other whose connection has both its
\* descriptions
C32_HandshakeCompletes ==
    \A e \in PeerId : \A r \in PeerId \ {e} :
        (r \in Keys(net[e].peers)) ~> Handshaken(e, r)

C32_Witness ==
    /\ net["A"].dials = 1
    /\ net["B"].dials = 0
    /\ Handshaken("A", "B")
    /\ net["A"].peers["B"].state = "WaitingForSdp"
    /\ net["B"].peers["A"].state = "WaitingForIce"
====
